---- MODULE Spec2Model ----
(***************************************************************************)
(* GMUBookSwap frontend: the token store and the identity operations of    *)
(* lib/api.ts, the error normalisation routine, the cart provider and the  *)
(* listing search page, as state machines.  One action is one event        *)
(* handler, effect or promise continuation of the single-threaded event    *)
(* loop; an await is a boundary between two actions.                       *)
(***************************************************************************)
EXTENDS Integers, Sequences, FiniteSets, TLC

(* ------------------------------ bounds --------------------------------- *)

\* Distinct access tokens, and distinct refresh tokens, the service issues.
MaxToken == 2

(* --------------------------- JavaScript values ------------------------- *)

\* null, as localStorage.getItem returns it for a missing key.
Null == [t |-> "null"]

\* A non-empty opaque string, the n-th of its kind.
Str(kind, n) == [t |-> "str", kind |-> kind, n |-> n]

AccessTokens == {Str("access", n) : n \in 1..MaxToken}
RefreshTokens == {Str("refresh", n) : n \in 1..MaxToken}

\* undefined, as a missing property of a parsed body reads.
Undefined == [t |-> "undefined"]

\* The empty string "".
EmptyStr == [t |-> "str", kind |-> "", n |-> 0]

\* if (v), v || w: null, undefined and "" are falsy; every other value of
\* this model is truthy.
Truthy(v) == v \notin {Null, Undefined, EmptyStr}

\* a || b
Or(a, b) == IF Truthy(a) THEN a ELSE b

(* ------------------------------- state --------------------------------- *)

VARIABLES
    localStorage,   \* the two token slots of window.localStorage
    loginCall,      \* the login() call: where it is and how it ended
    logoutCall,     \* the logout() call
    refreshCall,    \* the refreshAccessToken() call
    meCall,         \* the getCurrentUser() call
    wire,           \* the request authenticatedFetch produced last
    logoutHistory,  \* whether logout() has returned, and the calls then in flight
    tsWritten,      \* token store exercised alone: the last setTokens/clearTokens
    tsRead,         \* token store exercised alone: what the getters returned last
    errCall,        \* a handleApiError(response) call
    cartItems,      \* CartProvider: the cartItems state of the last render
    cartStorage,    \* the "cart" slot of window.localStorage
    cartPhase,      \* CartProvider: how far mounting has got
    cartQueued,     \* CartProvider: the state update the load effect queued
    saveDue,        \* CartProvider: the save effect of the last render is pending
    cartEvent,      \* the cart mutation handled last
    searchState,    \* AdvancedSearchPage: the useState values of the last render
    searchRefs,     \* AdvancedSearchPage: prevFiltersKey and prevPage
    debounceTimer,  \* the timer the debouncer holds, with its argument
    inFlight,       \* the runQuery calls awaiting their response, in issue order
    lastIssued,     \* what the runQuery call issued last computed, once it has
    userEvents,     \* input events handled by the search page so far
    lastChange,     \* what the state update rendered last changed, and on which page
    queryCall,      \* runQuery applied to one response, alone
    myPage,         \* MyListingsPage: the useState values of the last render
    myCalls,        \* MyListingsPage: the calls awaiting their response
    myWire,         \* MyListingsPage: the DELETEs sent, the list received last
    router,         \* the location shown, and how it was reached
    navCalls,       \* the calls of the pages awaiting their response
    tokenValid,     \* whether the service accepts the stored access token
    sellPage,       \* SellPage: the useState values of the last render
    sellCalls,      \* SellPage: the calls awaiting their response
    sellWire,       \* SellPage: the lookup result and the POST sent last
    checkoutPage,   \* CartPage: isCheckingOut and what handleCheckout awaits
    checkoutLog     \* CartPage: what the last checkout was answered

authVars ==
    <<localStorage, loginCall, logoutCall, refreshCall, meCall, wire, logoutHistory>>
tokenStoreVars == <<tsWritten, tsRead>>
cartVars == <<cartItems, cartStorage, cartPhase, cartQueued, saveDue, cartEvent>>

myListingsVars == <<myPage, myCalls, myWire>>

searchVars ==
    <<searchState, searchRefs, debounceTimer, inFlight, lastIssued, userEvents,
      lastChange>>

navVars == <<router, navCalls, tokenValid>>

sellVars == <<sellPage, sellCalls, sellWire>>

checkoutVars == <<checkoutPage, checkoutLog>>

vars ==
    <<authVars, tokenStoreVars, errCall, cartVars, searchVars, queryCall,
      myListingsVars, navVars, sellVars, checkoutVars>>

\* What the search page leaves alone.
notSearch == <<authVars, tokenStoreVars, errCall, cartVars, queryCall, myListingsVars,
      navVars, sellVars, checkoutVars>>

\* What the identity operations leave alone.
notAuth == <<tokenStoreVars, errCall, cartVars, searchVars, queryCall, myListingsVars,
      navVars, sellVars, checkoutVars>>

(* ---------------------------- token store ------------------------------ *)

TOKEN_KEY == "access_token"
REFRESH_TOKEN_KEY == "refresh_token"

\* typeof window !== "undefined": every caller of the token store is an
\* effect or an event handler of a client component, so it runs in the
\* browser.
HasWindow == TRUE

getAccessToken == IF ~HasWindow THEN Null ELSE localStorage[TOKEN_KEY]

getRefreshToken == IF ~HasWindow THEN Null ELSE localStorage[REFRESH_TOKEN_KEY]

\* localStorage.setItem(key, value) stores String(value): undefined and
\* null become the strings "undefined" and "null", a string stays itself.
StringOf(value) ==
    CASE value = Undefined -> Str("undefined", 0)
      [] value = Null -> Str("null", 0)
      [] OTHER -> value

\* The store after setAccessToken(token) on store ls.
setAccessToken(ls, token) ==
    IF ~HasWindow THEN ls ELSE [ls EXCEPT ![TOKEN_KEY] = StringOf(token)]

setRefreshToken(ls, token) ==
    IF ~HasWindow THEN ls ELSE [ls EXCEPT ![REFRESH_TOKEN_KEY] = StringOf(token)]

clearTokens_AccessOnly(ls) ==
    IF ~HasWindow THEN ls ELSE [ls EXCEPT ![TOKEN_KEY] = Null]

\* The store after clearTokens(): both keys removed.
clearTokens(ls) ==
    IF ~HasWindow THEN ls
    ELSE [ls EXCEPT ![TOKEN_KEY] = Null, ![REFRESH_TOKEN_KEY] = Null]

setTokens_Swapped(ls, accessToken, refreshToken) ==
    setRefreshToken(setAccessToken(ls, refreshToken), accessToken)

\* The store after setTokens(accessToken, refreshToken).
setTokens(ls, accessToken, refreshToken) ==
    setRefreshToken(setAccessToken(ls, accessToken), refreshToken)

isAuthenticated == Truthy(getAccessToken)

(* ---------------------- the token store, alone ------------------------- *)

\* A getter that has not been called, and the value v a getter returned:
\* fresh until the next setTokens or clearTokens.
Unread == [t |-> "unread"]
Read(v) == [t |-> "read", v |-> v, fresh |-> TRUE]
Stale(r) == IF r = Unread THEN r ELSE [r EXCEPT !.fresh = FALSE]

\* What the token store operations leave alone.
notTokenStore ==
    <<loginCall, logoutCall, refreshCall, meCall, wire, logoutHistory, errCall,
      cartVars, searchVars, queryCall, myListingsVars, navVars, sellVars,
      checkoutVars>>

\* setTokens(a, r) is called.
SetTokensOp(a, r) ==
    /\ localStorage' = setTokens(localStorage, a, r)
    /\ tsWritten' = [op |-> "set", access |-> a, refresh |-> r]
    /\ tsRead' = [access |-> Stale(tsRead.access), refresh |-> Stale(tsRead.refresh)]
    /\ UNCHANGED notTokenStore

\* clearTokens() is called.
ClearTokensOp ==
    /\ localStorage' = clearTokens(localStorage)
    /\ tsWritten' = [op |-> "clear"]
    /\ tsRead' = [access |-> Stale(tsRead.access), refresh |-> Stale(tsRead.refresh)]
    /\ UNCHANGED notTokenStore

\* getAccessToken() is called.
GetAccessTokenOp ==
    /\ tsRead' = [tsRead EXCEPT !.access = Read(getAccessToken)]
    /\ UNCHANGED <<localStorage, tsWritten>>
    /\ UNCHANGED notTokenStore

\* getRefreshToken() is called.
GetRefreshTokenOp ==
    /\ tsRead' = [tsRead EXCEPT !.refresh = Read(getRefreshToken)]
    /\ UNCHANGED <<localStorage, tsWritten>>
    /\ UNCHANGED notTokenStore

(* ------------------------- service responses --------------------------- *)

\* Distinct error texts a structured error body carries in one field.
MaxText == 1

\* fetch() rejected: the network is unreachable or the request was aborted.
NetErr == [t |-> "neterr"]

\* A body response.json() rejects: not JSON at all.
Unparseable == [t |-> "text"]

\* The JSON text null: response.json() resolves to null.
JsonNull == [t |-> "jsonnull"]

\* A JSON object with the given fields.
JsonObject(fields) == [t |-> "object", fields |-> fields]

\* A response fetch() resolved to.
Response(ok, status, body) ==
    [t |-> "response", ok |-> ok, status |-> status, body |-> body]

\* What a field of a structured error body may hold.
FieldValues(kind) == {Null, EmptyStr} \cup {Str(kind, n) : n \in 1..MaxText}

\* The error bodies: unparseable text, null, and objects with any subset of
\* the fields detail and message ({ detail: string } is what the service
\* documents).
ErrorBodies ==
    {Unparseable, JsonNull, JsonObject([other |-> Null])}
    \cup {JsonObject([detail |-> d]) : d \in FieldValues("detail")}
    \cup {JsonObject([message |-> m]) : m \in FieldValues("message")}
    \cup {JsonObject([detail |-> d, message |-> m]) :
             d \in FieldValues("detail"), m \in FieldValues("message")}

ErrorStatuses == {400, 401, 404, 422, 500}

ErrorResponses ==
    {Response(FALSE, s, b) : s \in ErrorStatuses, b \in ErrorBodies}

\* obj.name on a parsed object: undefined when the property is missing.
Field(obj, name) ==
    IF name \in DOMAIN obj.fields THEN obj.fields[name] ELSE Undefined

(* --------------------------- handleApiError ---------------------------- *)

\* `Request failed with status ${response.status}`
GenericMessage(status) ==
    [t |-> "str", kind |-> "Request failed with status", n |-> status]

\* How a call ends: it returns a value or throws an Error with a message.
Returns(value) == [outcome |-> "return", value |-> value]
Throws(message) == [outcome |-> "throw", message |-> message]

handleApiError_MessageFirst(response) ==
    LET errorMessage == GenericMessage(response.status)
        body == response.body
    IN  IF body.t # "object"
        THEN Throws(errorMessage)
        ELSE Throws(Or(Or(Field(body, "message"), Field(body, "detail")),
                       errorMessage))

\* handleApiError(response).  response.json() rejects on an unparseable
\* body, and reading a property of null throws a TypeError: the catch
\* swallows both and the default message stays.
handleApiError(response) ==
    LET errorMessage == GenericMessage(response.status)
        body == response.body
    IN  IF body.t # "object"
        THEN Throws(errorMessage)
        ELSE Throws(Or(Or(Field(body, "detail"), Field(body, "message")),
                       errorMessage))

(* ------------------------- authenticatedFetch -------------------------- *)

NoHeader == [t |-> "none"]

\* `Bearer ${token}`
Bearer(token) == [t |-> "bearer", token |-> token]

Methods == {"GET", "POST", "PUT", "DELETE"}

Endpoints == {"/auth/logout", "/auth/me", "/books/"}

\* No request produced yet.
NoRequest == [endpoint |-> "", method |-> "", auth |-> NoHeader]

\* fetch(url, {...options, headers}) on a request authenticatedFetch built:
\* wire holds the request last handed to fetch; flip tells two equal
\* requests in a row apart.
Sent(req) == [req |-> req, flip |-> ~wire.flip]

authenticatedFetch_AlwaysBearer(endpoint, method) ==
    [endpoint |-> endpoint, method |-> method, auth |-> Bearer(getAccessToken)]

\* The request authenticatedFetch(endpoint, {method}) hands to fetch: the
\* token is read from the store in the same synchronous run that builds the
\* headers.
authenticatedFetch(endpoint, method) ==
    LET token == getAccessToken
    IN  [endpoint |-> endpoint,
         method |-> method,
         auth |-> IF Truthy(token) THEN Bearer(token) ELSE NoHeader]

apiGet(endpoint) == authenticatedFetch(endpoint, "GET")
apiPost(endpoint) == authenticatedFetch(endpoint, "POST")
apiPut(endpoint) == authenticatedFetch(endpoint, "PUT")
apiDelete(endpoint) == authenticatedFetch(endpoint, "DELETE")

(* ------------------------- identity operations ------------------------- *)

\* A call that has not been made, one waiting for its response, and one
\* that has ended on response resp.
Idle == [pc |-> "idle", resp |-> Null]
Fetching == [pc |-> "fetching", resp |-> Null]
Ended(pc, resp) == [pc |-> pc, resp |-> resp]

CanStart(call) == call.pc \in {"idle", "returned", "thrown"}

\* 200 with { access_token, refresh_token, ... }
AuthOk(a, r) ==
    Response(TRUE, 200, JsonObject([access_token |-> a, refresh_token |-> r]))

AuthOkResponses == {AuthOk(a, r) : a \in AccessTokens, r \in RefreshTokens}

\* response.json() resolved to an object: reading a property of it works.
\* It rejects on a body that is no JSON, and a property of null throws.
HasFields(resp) == resp.body.t = "object"

\* A non-2xx answer of the identity service, with its documented body.
AuthRejected == Response(FALSE, 401, JsonObject([detail |-> Str("detail", 1)]))

\* A 2xx answer without a token pair, as POST /auth/logout and GET /auth/me
\* give.
PlainOk == Response(TRUE, 200, JsonObject([other |-> Null]))

\* 2xx answers that are no full token pair: one token only, no token, the
\* JSON text null, and a body that is no JSON.
OddOkResponses ==
    {Response(TRUE, 200, JsonObject([access_token |-> Str("access", 1)])),
     Response(TRUE, 200, JsonObject([refresh_token |-> Str("refresh", 1)])),
     Response(TRUE, 200, JsonObject([other |-> Null])),
     Response(TRUE, 200, JsonNull), Response(TRUE, 200, Unparseable)}

\* What POST /auth/login and POST /auth/refresh may answer.
TokenResponses == AuthOkResponses \cup OddOkResponses \cup {AuthRejected, NetErr}

(* login *)

\* login(data) starts: fetch POST /auth/login, without the helper.
LoginCallStep ==
    /\ CanStart(loginCall)
    /\ loginCall' = Fetching
    /\ UNCHANGED <<localStorage, logoutCall, refreshCall, meCall, wire>>
    /\ UNCHANGED notAuth

LoginCall == LoginCallStep /\ UNCHANGED logoutHistory

\* The same, noting that this login is started after every logout so far.
LoginCallNoted ==
    /\ LoginCallStep
    /\ logoutHistory' = [logoutHistory EXCEPT !.overtook = @ \ {"login"}]

LoginStore_OnAnyResponse(ls, resp) ==
    IF resp = NetErr THEN ls
    ELSE IF ~HasFields(resp) THEN ls
    ELSE setTokens(ls, Field(resp.body, "access_token"),
                       Field(resp.body, "refresh_token"))

\* The token store login leaves behind on response resp: fetch rejecting or
\* handleApiError throwing ends the call before setTokens.
LoginStore(ls, resp) ==
    IF resp = NetErr THEN ls
    ELSE IF ~resp.ok THEN ls
    ELSE IF ~HasFields(resp) THEN ls
    ELSE setTokens(ls, Field(resp.body, "access_token"),
                       Field(resp.body, "refresh_token"))

\* How login ends on response resp.
LoginEnd(resp) ==
    IF resp = NetErr THEN "thrown"
    ELSE IF ~resp.ok THEN
        (IF handleApiError(resp).outcome = "throw" THEN "thrown" ELSE "returned")
    ELSE IF ~HasFields(resp) THEN "thrown"
    ELSE "returned"

\* The response to login arrives and the call runs to its end.
LoginSettleOn(resp) ==
    /\ loginCall.pc = "fetching"
    /\ localStorage' = LoginStore(localStorage, resp)
    /\ loginCall' = Ended(LoginEnd(resp), resp)
    /\ UNCHANGED <<logoutCall, refreshCall, meCall, wire>>
    /\ UNCHANGED logoutHistory
    /\ UNCHANGED notAuth

\* The service answers as documented, or the request fails.
LoginSettle == \E resp \in AuthOkResponses \cup {AuthRejected, NetErr} : LoginSettleOn(resp)

(* logout *)

\* logout() starts: apiPost("/auth/logout", {}).
LogoutCall ==
    /\ CanStart(logoutCall)
    /\ logoutCall' = Fetching
    /\ wire' = Sent(apiPost("/auth/logout"))
    /\ UNCHANGED <<localStorage, loginCall, refreshCall, meCall>>
    /\ UNCHANGED logoutHistory
    /\ UNCHANGED notAuth

LogoutStore_ClearOnSuccessOnly(ls, resp) ==
    IF resp = NetErr THEN ls ELSE clearTokens(ls)

\* The token store logout leaves behind: the finally block clears it on
\* every path.
LogoutStore(ls, resp) == clearTokens(ls)

\* How logout ends: the catch swallows a rejected fetch, and a response of
\* any status is not looked at.
LogoutEnd(resp) == "returned"

\* The response to logout arrives, or its fetch rejects.
LogoutSettleStep ==
    /\ logoutCall.pc = "fetching"
    /\ \E resp \in {PlainOk, AuthRejected, NetErr} :
          /\ localStorage' = LogoutStore(localStorage, resp)
          /\ logoutCall' = Ended(LogoutEnd(resp), resp)
    /\ UNCHANGED <<loginCall, refreshCall, meCall, wire>>
    /\ UNCHANGED notAuth

LogoutSettle == LogoutSettleStep /\ UNCHANGED logoutHistory

\* The same, noting that logout() has returned and which calls were in flight.
LogoutSettleNoted ==
    /\ LogoutSettleStep
    /\ logoutHistory' =
          [returned |-> TRUE,
           overtook |-> {c \in {"login", "refresh"} :
                            IF c = "login" THEN loginCall.pc = "fetching"
                            ELSE refreshCall.pc = "fetching"}]

(* getCurrentUser *)

\* getCurrentUser() starts: apiGet("/auth/me").
GetCurrentUserCall ==
    /\ CanStart(meCall)
    /\ meCall' = Fetching
    /\ wire' = Sent(apiGet("/auth/me"))
    /\ UNCHANGED <<localStorage, loginCall, logoutCall, refreshCall>>
    /\ UNCHANGED logoutHistory
    /\ UNCHANGED notAuth

\* How getCurrentUser ends on response resp.
GetCurrentUserEnd(resp) ==
    IF resp = NetErr THEN "thrown"
    ELSE IF ~resp.ok THEN
        (IF handleApiError(resp).outcome = "throw" THEN "thrown" ELSE "returned")
    ELSE "returned"

\* The response to getCurrentUser arrives.
GetCurrentUserSettle ==
    /\ meCall.pc = "fetching"
    /\ \E resp \in {PlainOk, AuthRejected, NetErr} :
          meCall' = Ended(GetCurrentUserEnd(resp), resp)
    /\ UNCHANGED <<localStorage, loginCall, logoutCall, refreshCall, wire>>
    /\ UNCHANGED logoutHistory
    /\ UNCHANGED notAuth

(* refreshAccessToken *)

\* refreshAccessToken() found no refresh token and made no request.
NoRefreshToken == [t |-> "norefresh"]

\* refreshAccessToken() starts: it throws at once without a refresh token,
\* and otherwise fetches POST /auth/refresh, without the helper.
RefreshCallStep ==
    /\ CanStart(refreshCall)
    /\ refreshCall' = IF ~Truthy(getRefreshToken)
                      THEN Ended("thrown", NoRefreshToken)
                      ELSE Fetching
    /\ UNCHANGED <<localStorage, loginCall, logoutCall, meCall, wire>>
    /\ UNCHANGED notAuth

RefreshCall == RefreshCallStep /\ UNCHANGED logoutHistory

\* The same, noting that this refresh is started after every logout so far.
RefreshCallNoted ==
    /\ RefreshCallStep
    /\ logoutHistory' = [logoutHistory EXCEPT !.overtook = @ \ {"refresh"}]

RefreshStore_KeepsOnReject(ls, resp) ==
    IF resp = NetErr THEN ls
    ELSE IF ~resp.ok THEN ls
    ELSE IF ~HasFields(resp) THEN ls
    ELSE setTokens(ls, Field(resp.body, "access_token"),
                       Field(resp.body, "refresh_token"))

\* The token store refreshAccessToken leaves behind on response resp: a
\* rejected fetch ends the call before any store operation, a non-2xx
\* response clears the store, a 2xx response stores its pair.
RefreshStore(ls, resp) ==
    IF resp = NetErr THEN ls
    ELSE IF ~resp.ok THEN clearTokens(ls)
    ELSE IF ~HasFields(resp) THEN ls
    ELSE setTokens(ls, Field(resp.body, "access_token"),
                       Field(resp.body, "refresh_token"))

\* Where refreshAccessToken stands after response resp: after clearTokens()
\* it still awaits handleApiError, which reads the body before it throws.
RefreshEnd(resp) ==
    IF resp = NetErr THEN "thrown"
    ELSE IF ~resp.ok THEN "erroring"
    ELSE IF ~HasFields(resp) THEN "thrown"
    ELSE "returned"

\* The response to the refresh request arrives, or its fetch rejects.
RefreshSettleOn(resp) ==
    /\ refreshCall.pc = "fetching"
    /\ localStorage' = RefreshStore(localStorage, resp)
    /\ refreshCall' = Ended(RefreshEnd(resp), resp)
    /\ UNCHANGED <<loginCall, logoutCall, meCall, wire>>
    /\ UNCHANGED logoutHistory
    /\ UNCHANGED notAuth

\* The service answers as documented, or the request fails.
RefreshSettle ==
    \E resp \in AuthOkResponses \cup {AuthRejected, NetErr} : RefreshSettleOn(resp)

\* handleApiError has read the body of the rejection and throws.
RefreshRaise ==
    /\ refreshCall.pc = "erroring"
    /\ refreshCall' =
          Ended(IF handleApiError(refreshCall.resp).outcome = "throw"
                THEN "thrown" ELSE "returned", refreshCall.resp)
    /\ UNCHANGED <<localStorage, loginCall, logoutCall, meCall, wire>>
    /\ UNCHANGED logoutHistory
    /\ UNCHANGED notAuth

(* the request helpers, as the pages call them *)

\* A page calls apiGet, apiPost, apiPut or apiDelete on the catalog.
ApiHelperCall ==
    /\ \E req \in {apiGet("/books/"), apiPost("/books/"),
                    apiPut("/books/"), apiDelete("/books/")} :
          wire' = Sent(req)
    /\ UNCHANGED <<localStorage, loginCall, logoutCall, refreshCall, meCall>>
    /\ UNCHANGED logoutHistory
    /\ UNCHANGED notAuth

(* ----------------------- handleApiError, called ------------------------ *)

\* What handleApiError leaves alone.
notErr == <<authVars, tokenStoreVars, cartVars, searchVars, queryCall, myListingsVars,
      navVars, sellVars, checkoutVars>>

\* No handleApiError call made.
ErrOff == errCall = [pc |-> "idle", response |-> Null, result |-> Null]

\* A caller that saw !response.ok calls handleApiError(response), which
\* awaits response.json().
HandleApiErrorCall ==
    /\ errCall.pc \in {"idle", "settled"}
    /\ \E response \in ErrorResponses :
          errCall' = [pc |-> "parsing", response |-> response, result |-> Null]
    /\ UNCHANGED notErr

\* The body has been read, or could not be: the call ends.
HandleApiErrorSettle ==
    /\ errCall.pc = "parsing"
    /\ errCall' = [errCall EXCEPT !.pc = "settled",
                                  !.result = handleApiError(errCall.response)]
    /\ UNCHANGED notErr

(* ----------------------------- CartProvider ----------------------------- *)

\* Listing ids, and the largest price, of the cart entries.
MaxListing == 2
MaxPrice == 1

\* CartItem, cut to the fields the provider reads.
CartItems == [id : 1..MaxListing, price : 0..MaxPrice]

\* prev.some((cartItem) => cartItem.id === id)
InCart(prev, id) == \E i \in 1..Len(prev) : prev[i].id = id

\* prev.filter((item) => item.id !== id)
WithoutId(prev, id) == SelectSeq(prev, LAMBDA item : item.id # id)

\* No two entries of the list have the same listing id.
NoDuplicates(list) ==
    \A i, j \in 1..Len(list) : list[i].id = list[j].id => i = j

\* The entry lists without duplicates: what the provider itself persists.
RECURSIVE EntryLists(_)
EntryLists(n) ==
    IF n = 0 THEN {<<>>}
    ELSE LET shorter == EntryLists(n - 1)
         IN  shorter \cup
             {Append(l, item) : l \in {x \in shorter : Len(x) = n - 1},
                                item \in CartItems}

ValidEntryLists == {l \in EntryLists(MaxListing) : NoDuplicates(l)}

\* JSON.stringify(value): the text of a JSON value.
JsonText(value) == [t |-> "json", v |-> value]

\* A stored string that is not JSON.
CorruptText == [t |-> "text"]

\* What the "cart" slot may hold when the page loads.
PersistedCarts == {Null, CorruptText} \cup {JsonText(l) : l \in ValidEntryLists}

\* A parsed JSON value that is not an array: the object {} or null, boxed so
\* that it can stand where a list stands.
NotArray(kind) == <<[t |-> kind]>>

NotArrays == {NotArray("object"), NotArray("null")}

\* Array.isArray(value)
IsArray(value) == value \notin NotArrays

\* Every string the "cart" slot may hold when the page loads, the ones the
\* provider never wrote included: text that is not JSON, and JSON that is not
\* a list.
StoredCarts == PersistedCarts \cup {JsonText(value) : value \in NotArrays}

\* JSON.parse(text): the value, or a SyntaxError.
JsonParse(text) ==
    IF text.t = "json" THEN Returns(text.v) ELSE Throws("SyntaxError")

\* A queued setCartItems(value).
SetState(value) == [t |-> "set", v |-> value]

\* No cart mutation handled since the page loaded.
NoEvent == [op |-> "none"]

\* What the cart provider leaves alone.
notCart == <<authVars, tokenStoreVars, errCall, searchVars, queryCall, myListingsVars,
      navVars, sellVars, checkoutVars>>

\* The provider is not mounted.
CartOff ==
    /\ cartItems = <<>>
    /\ cartStorage = Null
    /\ cartPhase = "off"
    /\ cartQueued = Null
    /\ saveDue = FALSE
    /\ cartEvent = NoEvent

\* The page has loaded and the provider has rendered for the first time,
\* with useState's initial []: its two effects have not run yet.
CartInit ==
    /\ cartItems = <<>>
    /\ cartStorage \in PersistedCarts
    /\ cartPhase = "rendered"
    /\ cartQueued = Null
    /\ saveDue = FALSE
    /\ cartEvent = NoEvent

\* The load effect of the first render, on the stored value: the state update
\* it queues (Null: none) and the slot it leaves.
LoadEffect(stored) ==
    IF ~Truthy(stored)
    THEN [queued |-> Null, storage |-> stored]
    ELSE LET parsed == JsonParse(stored)
         IN  IF parsed.outcome = "return"
             THEN [queued |-> SetState(parsed.value), storage |-> stored]
             ELSE [queued |-> Null, storage |-> Null]

SaveEffectWrites_InitialState(stored, items) == JsonText(<<>>)

\* The slot after the save effect ran in a render with cartItems = items.
SaveEffectWrites(stored, items) == JsonText(items)

\* After the first render React runs both effects, in the order they are
\* declared: the load effect reads the slot and queues setCartItems(parsed),
\* then the save effect writes the cartItems of this render, the initial [].
MountEffects ==
    /\ cartPhase = "rendered"
    /\ LET loaded == LoadEffect(cartStorage)
       IN  /\ cartQueued' = loaded.queued
           /\ cartStorage' = SaveEffectWrites(loaded.storage, cartItems)
           /\ cartPhase' = IF loaded.queued = Null THEN "ready" ELSE "loading"
    /\ UNCHANGED <<cartItems, saveDue, cartEvent>>
    /\ UNCHANGED notCart

\* The render the load effect's setCartItems asked for: cartItems is the
\* parsed value, a new object, so the save effect is due again.  The
\* handlers below take cartItems for an array; the phase tells when it is
\* not one.
LoadRender ==
    /\ cartPhase = "loading"
    /\ cartItems' = cartQueued.v
    /\ cartQueued' = Null
    /\ cartPhase' = IF IsArray(cartQueued.v) THEN "ready" ELSE "notArray"
    /\ saveDue' = TRUE
    /\ UNCHANGED <<cartStorage, cartEvent>>
    /\ UNCHANGED notCart

\* The save effect of the last render runs.
SaveEffect ==
    /\ saveDue
    /\ cartStorage' = SaveEffectWrites(cartStorage, cartItems)
    /\ saveDue' = FALSE
    /\ UNCHANGED <<cartItems, cartPhase, cartQueued, cartEvent>>
    /\ UNCHANGED notCart

addToCartUpdater_Appends(prev, item) == Append(prev, item)

\* The updater addToCart(item) passes to setCartItems.
addToCartUpdater(prev, item) ==
    IF InCart(prev, item.id) THEN prev ELSE Append(prev, item)

\* The updater removeFromCart(id) passes to setCartItems.
removeFromCartUpdater(prev, id) == WithoutId(prev, id)

\* A handler sets the cart state and React renders: a save effect still
\* pending from the render before runs first; the save effect of the new
\* render is due unless the updater returned the very array it was given.
CartRenderStep(next, sameObject, event) ==
    /\ cartPhase = "ready"
    /\ cartStorage' = IF saveDue THEN SaveEffectWrites(cartStorage, cartItems)
                                  ELSE cartStorage
    /\ cartItems' = next
    /\ saveDue' = ~sameObject
    /\ cartEvent' = event
    /\ UNCHANGED <<cartPhase, cartQueued>>

CartRender(next, sameObject, event) ==
    CartRenderStep(next, sameObject, event) /\ UNCHANGED notCart

AddToCart(item) ==
    CartRender(addToCartUpdater(cartItems, item), InCart(cartItems, item.id),
               [op |-> "add", id |-> item.id, had |-> InCart(cartItems, item.id)])

RemoveFromCart(id) ==
    CartRender(removeFromCartUpdater(cartItems, id), FALSE,
               [op |-> "remove", id |-> id, had |-> InCart(cartItems, id)])

ClearCart ==
    CartRender(<<>>, FALSE, [op |-> "clear", id |-> 0, had |-> cartItems # <<>>])

\* The provider was loaded from a slot it had not written itself.
CartLoadInit ==
    /\ cartItems = <<>>
    /\ cartStorage \in StoredCarts
    /\ cartPhase = "rendered"
    /\ cartQueued = Null
    /\ saveDue = FALSE
    /\ cartEvent = NoEvent

\* prev.some(...) and prev.filter(...) on a value that has no such method:
\* the updater of addToCart or removeFromCart throws a TypeError while React
\* renders.
UpdaterThrows(event) ==
    /\ cartPhase = "notArray"
    /\ cartEvent' = event
    /\ UNCHANGED <<cartItems, cartStorage, cartPhase, cartQueued, saveDue>>
    /\ UNCHANGED notCart

AddToCartThrows(item) ==
    UpdaterThrows([op |-> "add", id |-> item.id, had |-> FALSE, threw |-> TRUE])

RemoveFromCartThrows(id) ==
    UpdaterThrows([op |-> "remove", id |-> id, had |-> FALSE, threw |-> TRUE])

\* clearCart() reads nothing of the state: setCartItems([]) replaces whatever
\* cartItems held, after the save effect still pending has run.
ClearCartNotArray ==
    /\ cartPhase = "notArray"
    /\ cartStorage' = IF saveDue THEN SaveEffectWrites(cartStorage, cartItems)
                                  ELSE cartStorage
    /\ cartItems' = <<>>
    /\ cartPhase' = "ready"
    /\ saveDue' = TRUE
    /\ cartEvent' = [op |-> "clear", id |-> 0, had |-> TRUE]
    /\ UNCHANGED cartQueued
    /\ UNCHANGED notCart

\* cartItems.length
getCartCount(items) ==
    IF IsArray(items) THEN Returns(Len(items))
    ELSE IF items = NotArray("null") THEN Throws("TypeError")
    ELSE Returns(Undefined)

\* items.reduce((total, item) => total + (item.price || 0), 0)
RECURSIVE Reduce(_)
Reduce(items) ==
    IF items = <<>> THEN 0
    ELSE Reduce(SubSeq(items, 1, Len(items) - 1))
         + (IF items[Len(items)].price # 0 THEN items[Len(items)].price ELSE 0)

getCartTotal(items) ==
    IF IsArray(items) THEN Returns(Reduce(items)) ELSE Throws("TypeError")

\* The page is reloaded: what is in memory and what was scheduled is gone,
\* the slot stays, and the provider renders for the first time again.
Reload ==
    /\ cartPhase # "off"
    /\ cartItems' = <<>>
    /\ cartPhase' = "rendered"
    /\ cartQueued' = Null
    /\ saveDue' = FALSE
    /\ cartEvent' = NoEvent
    /\ UNCHANGED cartStorage
    /\ UNCHANGED notCart

(* ------------------------- the listing search page ---------------------- *)
(* frontend/app/listing/page.tsx.  A string is the sequence of its         *)
(* characters, so that trimming, lowercasing and matching are computed.    *)

\* Listings in the catalog the service holds.
CatalogSize == 13
\* Input events (keystrokes, selections, button presses) the page handles.
MaxEvents == 2

SearchBys == {"Any", "Title", "Author", "ISBN", "Genre"}
Conditions == {"Contains", "Contains exact phrase", "Starts with"}
MaterialTypes == {"All items", "Articles", "Books", "Journals"}
Sorts == {"relevance", "newest", "price-asc", "price-desc"}
PageSizes == {12, 24, 48}

\* What the user types into the search field.
Terms == {<<>>, <<"a">>, <<" ", "B">>}

\* A string property of a listing that is present.
Text(s) == [t |-> "string", s |-> s]

\* created_at, by the time new Date(created_at).getTime() reads from it.
Date(ms) == [t |-> "date", ms |-> ms]

mtLabelToValue(m) ==
    CASE m = "Books" -> Text("book")
      [] m = "Journals" -> Text("journal")
      [] m = "Articles" -> Text("article")
      [] OTHER -> Undefined

toLowerCaseChar(c) ==
    CASE c = "A" -> "a"
      [] c = "B" -> "b"
      [] OTHER -> c

toLowerCase(s) == [i \in 1..Len(s) |-> toLowerCaseChar(s[i])]

RECURSIVE trimStart(_)
trimStart(s) == IF s # <<>> /\ Head(s) = " " THEN trimStart(Tail(s)) ELSE s

RECURSIVE trimEnd(_)
trimEnd(s) ==
    IF s # <<>> /\ s[Len(s)] = " " THEN trimEnd(SubSeq(s, 1, Len(s) - 1)) ELSE s

trim(s) == trimEnd(trimStart(s))

startsWith(s, sub) == Len(sub) <= Len(s) /\ SubSeq(s, 1, Len(sub)) = sub

includes(s, sub) ==
    \E i \in 0..(Len(s) - Len(sub)) : SubSeq(s, i + 1, i + Len(sub)) = sub

OptionalIncludes_CaseSensitive(field, searchLower) ==
    field.t = "string" /\ includes(field.s, searchLower)

\* item.field?.toLowerCase().includes(searchLower): undefined, which filter
\* takes for false, when the field is null or missing.
OptionalIncludes(field, searchLower) ==
    field.t = "string" /\ includes(toLowerCase(field.s), searchLower)

\* item.field?.toLowerCase() || ""
LowerOrEmpty(field) == IF field.t = "string" THEN toLowerCase(field.s) ELSE <<>>

MatchField_ExactIsContains(field, condition, searchLower) ==
    LET value == LowerOrEmpty(field)
    IN  CASE condition = "Starts with" -> startsWith(value, searchLower)
          [] OTHER -> includes(value, searchLower)

MatchField(field, condition, searchLower) ==
    LET value == LowerOrEmpty(field)
    IN  CASE condition = "Starts with" -> startsWith(value, searchLower)
          [] condition = "Contains exact phrase" -> value = searchLower
          [] OTHER -> includes(value, searchLower)

\* The predicate of the keyword filter.
KeywordMatch(item, searchBy, condition, searchLower) ==
    CASE searchBy = "Any" ->
            \/ OptionalIncludes(item.title, searchLower)
            \/ OptionalIncludes(item.author, searchLower)
            \/ OptionalIncludes(item.isbn, searchLower)
            \/ OptionalIncludes(item.genre, searchLower)
      [] searchBy = "Title" -> MatchField(item.title, condition, searchLower)
      [] searchBy = "Author" -> MatchField(item.author, condition, searchLower)
      [] searchBy = "Genre" -> MatchField(item.genre, condition, searchLower)
      [] searchBy = "ISBN" -> MatchField(item.isbn, condition, searchLower)
      [] OTHER -> TRUE

\* a.created_at ? new Date(a.created_at).getTime() : 0
GetTime(created_at) == IF created_at.t = "date" THEN created_at.ms ELSE 0

\* The comparator runQuery hands to sort for a sort key other than
\* "relevance".
Compare(sort, a, b) ==
    CASE sort = "newest" -> GetTime(b.created_at) - GetTime(a.created_at)
      [] sort = "price-asc" -> a.price - b.price
      [] OTHER -> b.price - a.price

\* x put into a list sorted by the comparator, behind every element that
\* does not come after it.
InsertSorted(sorted, x, sort) ==
    LET k == Cardinality({j \in 1..Len(sorted) : Compare(sort, sorted[j], x) <= 0})
    IN  SubSeq(sorted, 1, k) \o <<x>> \o SubSeq(sorted, k + 1, Len(sorted))

\* Array.prototype.sort with the comparator: stable.
SortWith(list, sort) ==
    LET sorted[n \in 0..Len(list)] ==
            IF n = 0 THEN <<>> ELSE InsertSorted(sorted[n - 1], list[n], sort)
    IN  sorted[Len(list)]

SortListings(list, sort) ==
    IF sort \in {"newest", "price-asc", "price-desc"} THEN SortWith(list, sort)
    ELSE list

Slice_FromTheTop(list, start, end) ==
    SubSeq(list, 1, IF end - start < Len(list) THEN end - start ELSE Len(list))

\* Array.prototype.slice(start, end), 0 <= start <= end.
Slice(list, start, end) ==
    SubSeq(list, start + 1, IF end < Len(list) THEN end ELSE Len(list))

\* The filtered and sorted listings of a query q over the fetched data.
FilterListings(q, data) ==
    LET mt == mtLabelToValue(q.materialType)
        byType == IF mt # Undefined
                  THEN SelectSeq(data, LAMBDA item : item.material_type = mt)
                  ELSE data
        trimmed == trim(q.activeTerm)
        searchLower == toLowerCase(trimmed)
        byKeyword ==
            IF trimmed # <<>>
            THEN SelectSeq(byType, LAMBDA item :
                     KeywordMatch(item, q.searchBy, q.condition, searchLower))
            ELSE byType
    IN  SortListings(byKeyword, q.sort)

\* What runQuery computes from a response: the items and the total it sets,
\* and the message it sets when it ends in its catch block.
QueryFailed(message) ==
    [failed |-> TRUE, items |-> <<>>, total |-> 0, err |-> Text(message)]

runQueryResult_TotalOfPage(q, response) ==
    IF response = NetErr THEN QueryFailed("Failed to fetch")
    ELSE IF ~response.ok THEN QueryFailed("Failed to fetch listings")
    ELSE IF response.body = Unparseable THEN QueryFailed("Unexpected token")
    ELSE LET data == IF response.body.t = "array" THEN response.body.items ELSE <<>>
             filtered == FilterListings(q, data)
             paginated == Slice(filtered, (q.page - 1) * q.pageSize,
                                (q.page - 1) * q.pageSize + q.pageSize)
         IN  [failed |-> FALSE, items |-> paginated, total |-> Len(paginated),
              err |-> Null]

runQueryResult(q, response) ==
    IF response = NetErr THEN QueryFailed("Failed to fetch")
    ELSE IF ~response.ok THEN QueryFailed("Failed to fetch listings")
    ELSE IF response.body = Unparseable THEN QueryFailed("Unexpected token")
    ELSE LET data == IF response.body.t = "array" THEN response.body.items ELSE <<>>
             filtered == FilterListings(q, data)
             total == Len(filtered)
             start == (q.page - 1) * q.pageSize
             end == start + q.pageSize
             paginated == Slice(filtered, start, end)
         IN  [failed |-> FALSE, items |-> paginated, total |-> total, err |-> Null]

\* The catalog of the service: CatalogSize listings that differ in every
\* property runQuery reads, some of them missing.
Listing(i) ==
    [id |-> i,
     title |-> Text(CASE i % 3 = 0 -> <<"a", "b">> [] i % 3 = 1 -> <<"B">>
                      [] OTHER -> <<"A">>),
     author |-> CASE i % 4 = 0 -> Null [] i % 4 = 1 -> Text(<<"a">>)
                  [] i % 4 = 2 -> Undefined [] OTHER -> Text(<<"b", "a">>),
     isbn |-> IF i % 2 = 0 THEN Text(<<"1">>) ELSE Null,
     genre |-> IF i % 5 = 0 THEN Text(<<"B", " ", "a">>) ELSE Undefined,
     material_type |-> CASE i % 4 = 0 -> Text("book") [] i % 4 = 1 -> Text("journal")
                         [] i % 4 = 2 -> Text("article") [] OTHER -> Null,
     price |-> i % 3,
     created_at |-> IF i % 3 = 0 THEN Null ELSE Date(i % 4)]

Catalog == [i \in 1..CatalogSize |-> Listing(i)]

\* A JSON array.
JsonArray(list) == [t |-> "array", items |-> list]

\* What fetch(getApiUrl("/books/")) ends with here: a failed request, a
\* rejection by the service, or the catalog.
CatalogResponses ==
    {NetErr, Response(FALSE, 500, JsonNull), Response(TRUE, 200, JsonArray(Catalog))}

\* The closure of a render that a runQuery(activeTerm) call reads from.
Query(activeTerm, s) ==
    [activeTerm |-> activeTerm, searchBy |-> s.searchBy, condition |-> s.condition,
     materialType |-> s.materialType, sort |-> s.sort, page |-> s.page,
     pageSize |-> s.pageSize]

\* setLoading(true); setErr(null)
runQueryStart(s) == [s EXCEPT !.loading = TRUE, !.err = Null]

runQueryEnd_KeepsResult(s, result) ==
    IF result.failed
    THEN [s EXCEPT !.err = result.err, !.loading = FALSE]
    ELSE [s EXCEPT !.items = result.items, !.total = result.total, !.loading = FALSE]

\* The state updates of runQuery once its response is there.
runQueryEnd(s, result) ==
    IF result.failed
    THEN [s EXCEPT !.err = result.err, !.items = <<>>, !.total = 0, !.loading = FALSE]
    ELSE [s EXCEPT !.items = result.items, !.total = result.total, !.loading = FALSE]

\* prevFiltersKey.current before the first effect run: "".
EmptyKey == [t |-> "string", s |-> ""]

\* JSON.stringify({ searchBy, condition, debounced, materialType, sort })
FiltersKey(s) ==
    [t |-> "json", searchBy |-> s.searchBy, condition |-> s.condition,
     debounced |-> s.debounced, materialType |-> s.materialType, sort |-> s.sort]

\* The dependencies of the re-query effect.
RequeryDeps(s) ==
    <<s.searchBy, s.condition, s.debounced, s.materialType, s.sort, s.page, s.pageSize>>

\* The page as a record of what it holds: state, refs, requests.
Page(s, r, f) == [state |-> s, refs |-> r, inFlight |-> f]

\* The re-query effect of the render with state s; when it calls setPage(1)
\* the page renders again and the effect runs for that render too.
RECURSIVE RequeryEffect(_, _, _)
RequeryEffect(s, r, f) ==
    LET filtersKey == FiltersKey(s)
        filtersChanged == r.prevFiltersKey # EmptyKey /\ r.prevFiltersKey # filtersKey
        pageChanged == r.prevPage # s.page
        refs == [prevFiltersKey |-> filtersKey, prevPage |-> s.page]
        started == runQueryStart(s)
        requests == Append(f, Query(s.debounced, s))
    IN  IF filtersChanged /\ ~pageChanged /\ s.page # 1
        THEN RequeryEffect([started EXCEPT !.page = 1], refs, requests)
        ELSE Page(started, refs, requests)

\* The timers of the debouncer: the arguments of the ones set and not yet
\* fired or cleared, oldest first, and whether t, the handle debounce keeps,
\* is that of a timer still pending: the newest one.
NoTimer == [pending |-> <<>>, live |-> FALSE]

\* if (t) clearTimeout(t)
clearTimeout(timer) ==
    IF timer.live
    THEN [pending |-> SubSeq(timer.pending, 1, Len(timer.pending) - 1), live |-> FALSE]
    ELSE timer

debounce_KeepsOlderTimers(timer, args) ==
    [pending |-> Append(timer.pending, args), live |-> TRUE]

\* A call of the debounced function: the timer set before is cleared and a
\* new one is set with the arguments of this call.
debounce(timer, args) ==
    [pending |-> Append(clearTimeout(timer).pending, args), live |-> TRUE]

\* The initial values of the useState calls.
InitialSearchState ==
    [showFilters |-> TRUE, term |-> <<>>, searchBy |-> "Any",
     condition |-> "Contains", materialType |-> "All items",
     sort |-> "relevance", items |-> <<>>, total |-> 0,
     page |-> 1, pageSize |-> 12, loading |-> TRUE, err |-> Null,
     debounced |-> <<>>]

\* A render with state next after the event handler has run, and its effects.
Commit(next, requests, timer) ==
    LET after == IF RequeryDeps(next) # RequeryDeps(searchState)
                 THEN RequeryEffect(next, searchRefs, requests)
                 ELSE Page(next, searchRefs, requests)
    IN  /\ searchState' = after.state
        /\ searchRefs' = after.refs
        /\ inFlight' = after.inFlight
        /\ debounceTimer' = IF next.term # searchState.term
                            THEN debounce(timer, next.term)
                            ELSE timer
        /\ lastIssued' = IF after.inFlight # inFlight
                         THEN [pending |-> TRUE] ELSE lastIssued
        /\ lastChange' = [filters |-> FiltersKey(next) # FiltersKey(searchState),
                          pageSize |-> next.pageSize # searchState.pageSize,
                          pageBefore |-> searchState.page]
        /\ UNCHANGED notSearch

\* No state update rendered yet.
NoChange == [filters |-> FALSE, pageSize |-> FALSE, pageBefore |-> 1]

\* The first render: the initial values of the state and of the refs.
SearchRendered ==
    /\ searchState = InitialSearchState
    /\ searchRefs = [prevFiltersKey |-> EmptyKey, prevPage |-> 1]
    /\ debounceTimer = NoTimer
    /\ inFlight = <<>>
    /\ lastIssued = [pending |-> TRUE]
    /\ userEvents = 0
    /\ lastChange = NoChange

\* The effects of the first render have run.
Mounted == searchRefs.prevFiltersKey # EmptyKey

\* The effects of the first render: debouncer(term) and the re-query effect.
Mount ==
    /\ ~Mounted
    /\ LET after == RequeryEffect(searchState, searchRefs, inFlight)
       IN  /\ searchState' = after.state
           /\ searchRefs' = after.refs
           /\ inFlight' = after.inFlight
    /\ debounceTimer' = debounce(debounceTimer, searchState.term)
    /\ lastIssued' = [pending |-> TRUE]
    /\ UNCHANGED <<userEvents, lastChange>>
    /\ UNCHANGED notSearch

\* An input event whose handler leaves the state at next and the requests
\* at requests.
Input(next, requests) ==
    /\ Mounted
    /\ userEvents < MaxEvents
    /\ userEvents' = userEvents + 1
    /\ Commit(next, requests, debounceTimer)

\* The list without its i-th element.
RemoveAt(list, i) == SubSeq(list, 1, i - 1) \o SubSeq(list, i + 1, Len(list))

\* The options the user picks from in the runs of the page: the initial one
\* and one other of each control.
PickedSearchBys == {"Any", "Title"}
PickedConditions == {"Contains", "Contains exact phrase"}
PickedMaterialTypes == {"All items", "Books"}
PickedSorts == {"relevance", "price-desc"}
PickedPageSizes == {12, 24}

\* onChange of a search field: setTerm(e.target.value)
SetTerm(value) ==
    /\ value # searchState.term
    /\ Input([searchState EXCEPT !.term = value], inFlight)

SetSearchBy(value) ==
    /\ value # searchState.searchBy
    /\ Input([searchState EXCEPT !.searchBy = value], inFlight)

SetCondition(value) ==
    /\ value # searchState.condition
    /\ Input([searchState EXCEPT !.condition = value], inFlight)

SetMaterialType(value) ==
    /\ value # searchState.materialType
    /\ Input([searchState EXCEPT !.materialType = value], inFlight)

SetSort(value) ==
    /\ value # searchState.sort
    /\ Input([searchState EXCEPT !.sort = value], inFlight)

\* Math.max(1, Math.ceil(total / pageSize))
pageCount(s) ==
    LET ceil == (s.total + s.pageSize - 1) \div s.pageSize
    IN  IF ceil > 1 THEN ceil ELSE 1

\* The pagination controls are rendered when items.length > 0.
PaginationShown == Len(searchState.items) > 0

SetPageSize(value) ==
    /\ PaginationShown
    /\ value # searchState.pageSize
    /\ Input([searchState EXCEPT !.pageSize = value], inFlight)

\* Previous: setPage((p) => Math.max(1, p - 1)), disabled on page 1.
PreviousPage ==
    /\ PaginationShown
    /\ searchState.page # 1
    /\ Input([searchState EXCEPT !.page = IF @ - 1 > 1 THEN @ - 1 ELSE 1], inFlight)

\* Next: setPage((p) => p + 1), disabled when page >= pageCount.
NextPage ==
    /\ PaginationShown
    /\ searchState.page < pageCount(searchState)
    /\ Input([searchState EXCEPT !.page = @ + 1], inFlight)

\* Enter in a search field: setPage(1); runQuery(term), the call reading
\* the page of the render the handler belongs to.
OnEnter ==
    /\ Mounted
    /\ Input([runQueryStart(searchState) EXCEPT !.page = 1],
             Append(inFlight, Query(searchState.term, searchState)))

OnAdvancedClick_WaitsForTimer ==
    /\ Mounted
    /\ Input([runQueryStart(searchState) EXCEPT !.showFilters = ~@],
             Append(inFlight, Query(searchState.debounced, searchState)))

\* The search button: setShowFilters((s) => !s); runQuery(term)
OnAdvancedClick ==
    /\ Mounted
    /\ Input([runQueryStart(searchState) EXCEPT !.showFilters = ~@],
             Append(inFlight, Query(searchState.term, searchState)))

\* The i-th pending timer fires: setDebounced(term as typed when it was
\* set).
DebounceFires(i) ==
    /\ Commit([searchState EXCEPT !.debounced = debounceTimer.pending[i]], inFlight,
              [pending |-> RemoveAt(debounceTimer.pending, i),
               live |-> debounceTimer.live /\ i # Len(debounceTimer.pending)])
    /\ UNCHANGED userEvents


\* The response to the i-th request in flight arrives (or the request
\* fails) and that runQuery call runs to its end.  The call reads nothing
\* from the page between fetch and response.json(), so both awaits are one
\* step.
RunQuerySettle(i, response) ==
    LET result == runQueryResult(inFlight[i], response)
    IN  /\ searchState' = runQueryEnd(searchState, result)
        /\ inFlight' = RemoveAt(inFlight, i)
        /\ lastIssued' = IF lastIssued.pending /\ i = Len(inFlight)
                         THEN [pending |-> FALSE, items |-> result.items,
                               total |-> result.total]
                         ELSE lastIssued
        /\ UNCHANGED <<searchRefs, debounceTimer, userEvents, lastChange>>
        /\ UNCHANGED notSearch

(* ----------------------------- runQuery, alone -------------------------- *)
(* runQuery as a function of the closure it reads and of the response it   *)
(* gets, applied once to inputs drawn from bounded sets.                     *)

\* The largest page number a query is made for.
MaxQueryPage == 3

\* The terms a query is made with.
QueryTerms == {<<>>, <<"a">>, <<" ", "B">>}

\* Every closure runQuery may read from.
Queries ==
    [activeTerm : QueryTerms, searchBy : SearchBys, condition : Conditions,
     materialType : MaterialTypes, sort : Sorts, page : 1..MaxQueryPage,
     pageSize : PageSizes]

\* The queries that only filter by keyword: first page, no material kind,
\* no sort.
KeywordQueries ==
    {q \in Queries : /\ q.materialType = "All items" /\ q.sort = "relevance"
                     /\ q.page = 1 /\ q.pageSize = 12}

\* Listing sets of several sizes, up to more than two pages of the smallest
\* page size, cut from the catalog at two places.
LongData ==
    {[i \in 1..n |-> Listing(i + offset)] :
        n \in {0, CatalogSize, 2 * CatalogSize - 1}, offset \in 0..1}

\* What one of the four searched properties of a listing may hold.
FieldTexts ==
    {Null, Undefined, Text(<<"b">>), Text(<<"A", "b">>), Text(<<"B", " ", "a">>)}

\* A listing with the given searched properties.
FieldListing(title, author, isbn, genre) ==
    [id |-> 1, title |-> title, author |-> author, isbn |-> isbn, genre |-> genre,
     material_type |-> Text("book"), price |-> 0, created_at |-> Null]

\* The listing sets of one listing, for every combination of its searched
\* properties.
FieldData ==
    {<<FieldListing(title, author, isbn, genre)>> :
        title \in FieldTexts, author \in FieldTexts,
        isbn \in FieldTexts, genre \in FieldTexts}

\* The page before the response arrives: an earlier result shown, this
\* query started.
EarlierResult ==
    [InitialSearchState EXCEPT !.items = <<Listing(1)>>, !.total = 1]

\* A runQuery call with closure q awaiting the given response.
Called(q, response) ==
    [pc |-> "called", q |-> q, response |-> response,
     result |-> Null, shown |-> EarlierResult]

OkArray(data) == Response(TRUE, 200, JsonArray(data))

\* runQuery is not called.
QueryOff == queryCall = [pc |-> "off"]

\* The responses that carry no listing array.
NoDataResponses ==
    {NetErr, Response(FALSE, 500, JsonNull), Response(TRUE, 200, Unparseable),
     Response(TRUE, 200, JsonNull)}

QueryInit ==
    \/ \E q \in Queries, data \in LongData : queryCall = Called(q, OkArray(data))
    \/ \E q \in KeywordQueries, data \in FieldData :
           queryCall = Called(q, OkArray(data))
    \/ \E q \in KeywordQueries, response \in NoDataResponses :
           queryCall = Called(q, response)

\* What the runQuery call leaves alone.
notQuery ==
    <<authVars, tokenStoreVars, errCall, cartVars, searchVars, myListingsVars,
      navVars, sellVars, checkoutVars>>

\* The response arrives and runQuery runs to its end.
RunQueryReturn ==
    /\ queryCall.pc = "called"
    /\ LET result == runQueryResult(queryCall.q, queryCall.response)
       IN  queryCall' = [queryCall EXCEPT !.pc = "settled", !.result = result,
                                          !.shown = runQueryEnd(@, result)]
    /\ UNCHANGED notQuery

(* --------------------------- the My Listings page ----------------------- *)

\* The accounts of the service, and the listings it stores.
MaxUser == 2
MaxBook == 4

\* How many calls the page may have awaiting their response at once.
MaxCalls == 3

UserEmails == {Str("email", n) : n \in 1..MaxUser}

\* The seller_email the service stores with listing i: an account's email,
\* null, or no such property.
Seller(i) ==
    CASE i % 5 = 1 -> Str("email", 1)
      [] i % 5 = 2 -> Str("email", 2)
      [] i % 5 = 3 -> Null
      [] i % 5 = 4 -> Str("email", 1)
      [] OTHER -> Undefined

\* A BookListing as GET /books/ returns it, reduced to what the page reads.
BookListing(i) == [id |-> i, seller_email |-> Seller(i)]

\* The listings with the given ids, in id order.
BooksOf(ids) ==
    SelectSeq([i \in 1..MaxBook |-> BookListing(i)], LAMBDA l : l.id \in ids)

\* What GET /auth/me may answer: no answer, a rejection, a body that is no
\* JSON, null, and user objects with and without an email.
MeResponses ==
    {NetErr, Response(FALSE, 401, JsonObject([detail |-> Str("detail", 1)])),
     Response(TRUE, 200, Unparseable), Response(TRUE, 200, JsonNull),
     Response(TRUE, 200, JsonObject([other |-> Null])),
     Response(TRUE, 200, JsonObject([email |-> Null])),
     Response(TRUE, 200, JsonObject([email |-> EmptyStr]))}
    \cup {Response(TRUE, 200, JsonObject([email |-> e])) : e \in UserEmails}

\* What GET /books/ may answer: no answer, a rejection, a body that is no
\* JSON, a body that is no array, an array holding null, and every selection
\* of the stored listings.
BooksResponses ==
    {NetErr, Response(FALSE, 500, Unparseable),
     Response(FALSE, 401, JsonObject([detail |-> Str("detail", 1)])),
     Response(TRUE, 200, Unparseable), Response(TRUE, 200, JsonNull),
     Response(TRUE, 200, JsonArray(<<BookListing(1), Null>>))}
    \cup {Response(TRUE, 200, JsonArray(BooksOf(ids))) : ids \in SUBSET (1..MaxBook)}

\* What DELETE /books/{id} may answer.
DeleteResponses ==
    {NetErr, Response(FALSE, 403, JsonObject([detail |-> Str("detail", 1)])),
     Response(TRUE, 200, JsonNull)}

\* getCurrentUser(): the parsed body, or the error it throws.
getCurrentUser(response) ==
    IF response = NetErr THEN Throws(Text("Failed to fetch"))
    ELSE IF ~response.ok THEN handleApiError(response)
    ELSE IF response.body = Unparseable THEN Throws(Text("Unexpected token"))
    ELSE Returns(response.body)

\* user?.email
EmailOf(user) == IF user.t = "object" THEN Field(user, "email") ELSE Undefined

\* fetchListings from its await on: the listings it sets, or the error its
\* catch block receives.  The filter keeps every listing of the response.
fetchListingsEnd_Unfiltered(userEmail, response) ==
    IF response = NetErr THEN Throws(Text("Failed to fetch"))
    ELSE IF ~response.ok THEN handleApiError(response)
    ELSE IF response.body = Unparseable THEN Throws(Text("Unexpected token"))
    ELSE IF response.body.t # "array" THEN Returns(<<>>)
    ELSE Returns(response.body.items)

\* fetchListings from its await on: the listings it sets, or the error its
\* catch block receives.  Reading seller_email of a null element throws.
fetchListingsEnd(userEmail, response) ==
    IF response = NetErr THEN Throws(Text("Failed to fetch"))
    ELSE IF ~response.ok THEN handleApiError(response)
    ELSE IF response.body = Unparseable THEN Throws(Text("Unexpected token"))
    ELSE IF response.body.t # "array" THEN Returns(<<>>)
    ELSE IF \E i \in 1..Len(response.body.items) : response.body.items[i] = Null
    THEN Throws(Text("Cannot read properties of null"))
    ELSE Returns(SelectSeq(response.body.items,
                           LAMBDA listing : listing.seller_email = userEmail))

\* A listing id as the deletingId state holds it.
Number(n) == [t |-> "number", n |-> n]

\* listings.find(l => l.id === id): the first match, or undefined.
Find(listings, id) ==
    LET found == SelectSeq(listings, LAMBDA l : l.id = id)
    IN  IF found = <<>> THEN Undefined ELSE found[1]

\* handleDelete's ownership check: TRUE when it goes on to the request.
OwnershipVerified(listings, userEmail, id) ==
    LET listing == Find(listings, id)
    IN  ~(listing # Undefined /\ listing.seller_email # userEmail)

\* The useState values of MyListingsPage at its first render.
InitialMyListings ==
    [listings |-> <<>>, loading |-> TRUE, error |-> Null, deletingId |-> Null,
     userEmail |-> Null, mounted |-> FALSE]

\* The page is rendered once, its effects have not run, nothing was sent.
MyListingsRendered ==
    /\ myPage = InitialMyListings
    /\ myCalls = <<>>
    /\ myWire = [deleted |-> {}, received |-> Null]

\* What the My Listings page leaves alone.
notMyListings ==
    <<authVars, tokenStoreVars, errCall, cartVars, searchVars, queryCall, navVars,
      sellVars, checkoutVars>>

\* fetchListings up to its await, in a render whose userEmail is the given
\* one: the state it sets and the calls awaiting afterwards.
fetchListingsStart(page, calls, userEmail) ==
    IF ~Truthy(userEmail)
    THEN [page |-> page, calls |-> calls]
    ELSE [page |-> [page EXCEPT !.loading = TRUE, !.error = Null],
          calls |-> Append(calls, [op |-> "fetchListings", userEmail |-> userEmail])]

\* The effects of the first render: fetchCurrentUser calls getCurrentUser;
\* the [userEmail] effect finds no email and does nothing.
MyListingsMount ==
    /\ ~myPage.mounted
    /\ myPage' = [myPage EXCEPT !.mounted = TRUE]
    /\ myCalls' = Append(myCalls, [op |-> "getCurrentUser"])
    /\ UNCHANGED myWire
    /\ UNCHANGED notMyListings

\* getCurrentUser settles: with an email, setUserEmail renders and the
\* [userEmail] effect calls fetchListings; otherwise the error is logged.
FetchCurrentUserSettle(i, response) ==
    /\ myCalls[i].op = "getCurrentUser"
    /\ LET user == getCurrentUser(response)
           email == IF user.outcome = "return" THEN EmailOf(user.value)
                    ELSE Undefined
           rest == RemoveAt(myCalls, i)
           next == IF Truthy(email) /\ email # myPage.userEmail
                   THEN fetchListingsStart([myPage EXCEPT !.userEmail = email],
                                           rest, email)
                   ELSE [page |-> myPage, calls |-> rest]
       IN  /\ myPage' = next.page
           /\ myCalls' = next.calls
    /\ UNCHANGED myWire
    /\ UNCHANGED notMyListings

\* The GET /books/ of a fetchListings call settles.
FetchListingsSettle(i, response) ==
    /\ myCalls[i].op = "fetchListings"
    /\ LET end == fetchListingsEnd(myCalls[i].userEmail, response)
       IN  myPage' =
               IF end.outcome = "return"
               THEN [myPage EXCEPT !.listings = end.value, !.loading = FALSE]
               ELSE [myPage EXCEPT !.error = end.message, !.loading = FALSE]
    /\ myCalls' = RemoveAt(myCalls, i)
    /\ myWire' = [myWire EXCEPT !.received = response]
    /\ UNCHANGED notMyListings

\* The Retry button, which the error state shows.
Retry ==
    /\ myPage.mounted /\ ~myPage.loading /\ myPage.error # Null
    /\ Len(myCalls) < MaxCalls
    /\ LET next == fetchListingsStart(myPage, myCalls, myPage.userEmail)
       IN  /\ myPage' = next.page
           /\ myCalls' = next.calls
    /\ UNCHANGED myWire
    /\ UNCHANGED notMyListings

\* The Delete button of the i-th card, enabled unless that listing is the
\* one being deleted; the user answers the confirm() dialog.
HandleDelete(i, confirmed) ==
    /\ myPage.mounted /\ ~myPage.loading /\ myPage.error = Null
    /\ i \in 1..Len(myPage.listings)
    /\ myPage.deletingId # Number(myPage.listings[i].id)
    /\ Len(myCalls) < MaxCalls
    /\ LET id == myPage.listings[i].id
       IN  IF confirmed /\ OwnershipVerified(myPage.listings, myPage.userEmail, id)
           THEN /\ myPage' = [myPage EXCEPT !.deletingId = Number(id)]
                /\ myCalls' = Append(myCalls, [op |-> "delete", id |-> id])
                /\ myWire' = [myWire EXCEPT !.deleted = @ \cup {id}]
           ELSE UNCHANGED <<myPage, myCalls, myWire>>
    /\ UNCHANGED notMyListings

\* The DELETE of a handleDelete call settles.
HandleDeleteSettle(i, response) ==
    /\ myCalls[i].op = "delete"
    /\ LET ok == response # NetErr /\ response.ok
           id == myCalls[i].id
       IN  myPage' =
               [myPage EXCEPT
                   !.listings = IF ok THEN SelectSeq(@, LAMBDA l : l.id # id)
                                ELSE @,
                   !.deletingId = Null]
    /\ myCalls' = RemoveAt(myCalls, i)
    /\ UNCHANGED myWire
    /\ UNCHANGED notMyListings

(* --------------------- RouteGuard and the pages it wraps ---------------- *)

\* A pathname, as the list of its segments: "/" is <<>>, "/listing/1" is
\* <<"listing", "1">>.
LoginPath == <<>>

\* const PROTECTED_ROUTES = ["/listing", "/sell", "/my-listings", "/cart"]
PROTECTED_ROUTES == {<<"listing">>, <<"sell">>, <<"my-listings">>, <<"cart">>}

\* The pathnames of the application.
Pathnames == PROTECTED_ROUTES \cup {LoginPath, <<"signup">>, <<"listing", "1">>}

\* PROTECTED_ROUTES.some(route => pathname.startsWith(route))
isProtectedRoute(pathname) ==
    \E route \in PROTECTED_ROUTES : startsWith(pathname, route)

\* encodeURIComponent(pathname), as it stands in the query string.
encodeURIComponent(pathname) == [t |-> "encoded", of |-> pathname]

\* searchParams.get('redirect'): the decoded parameter, or null.
SearchParamsGet(redirect) ==
    IF redirect = Null THEN Null ELSE [t |-> "string", of |-> redirect.of]

\* redirect || '/listing', as a pathname
OrListing(redirect) == IF Truthy(redirect) THEN redirect.of ELSE <<"listing">>

\* A location: by tells a navigation of the user (a link, the address bar)
\* from one router.push made; arrived is false until the effects of the
\* render for that location have run.
Location(pathname, redirect, by) ==
    [pathname |-> pathname, redirect |-> redirect, by |-> by, arrived |-> FALSE]

\* router.push("/"), router.push(`/?redirect=${...}`), router.push(path)
Push(pathname, redirect) == Location(pathname, redirect, "push")

\* The application is not open.
NavOff ==
    /\ router = [pathname |-> LoginPath, redirect |-> Null, by |-> "none",
                 arrived |-> FALSE]
    /\ navCalls = <<>>
    /\ tokenValid = FALSE

\* What the pages and the guard leave alone: everything but the token
\* store.
notNav ==
    <<loginCall, logoutCall, refreshCall, meCall, wire, logoutHistory, tokenStoreVars,
      errCall, cartVars, searchVars, queryCall, myListingsVars, sellVars,
      checkoutVars>>

\* The user opens a page of the application: a link or the address bar.
Open(pathname) ==
    /\ router' = Location(pathname, Null, "user")
    /\ UNCHANGED <<navCalls, tokenValid, localStorage>>
    /\ UNCHANGED notNav

\* The effect of RouteGuard, given where the effects of the page left the
\* router: the redirect to the login page with the return URL.
RouteGuardEffect(pathname, pushed) ==
    IF isProtectedRoute(pathname) /\ ~isAuthenticated
    THEN Push(LoginPath, encodeURIComponent(pathname))
    ELSE pushed

\* The effects of the render after the pathname changed.  The page's own
\* effect runs first: HomePage sends a user holding a token on to /listing,
\* SellPage calls getCurrentUser.  Then the effect of RouteGuard runs, its
\* dependency pathname having changed.
PageEffects ==
    /\ router.by # "none" /\ ~router.arrived
    /\ Len(navCalls) < MaxCalls
    /\ LET here == [router EXCEPT !.arrived = TRUE]
           home == IF router.pathname = LoginPath /\ isAuthenticated
                   THEN Push(<<"listing">>, Null) ELSE here
       IN  /\ router' = RouteGuardEffect(router.pathname, home)
           /\ navCalls' = IF router.pathname = <<"sell">>
                          THEN Append(navCalls, [op |-> "getUserEmail"])
                          ELSE navCalls
    /\ UNCHANGED <<tokenValid, localStorage>>
    /\ UNCHANGED notNav

\* The login form is submitted with a Mason address: handleLogin calls
\* login and keeps the searchParams of its render.
HandleLogin ==
    /\ router.pathname = LoginPath /\ router.arrived
    /\ \A i \in 1..Len(navCalls) : navCalls[i].op # "login"
    /\ Len(navCalls) < MaxCalls
    /\ navCalls' = Append(navCalls, [op |-> "login", redirect |-> router.redirect])
    /\ UNCHANGED <<router, tokenValid, localStorage>>
    /\ UNCHANGED notNav

\* login settles: on success the pair is stored and the router pushes
\* searchParams.get('redirect') || '/listing'; on failure the message shows.
HandleLoginSettle(i, resp) ==
    /\ navCalls[i].op = "login"
    /\ localStorage' = LoginStore(localStorage, resp)
    /\ LET redirect == SearchParamsGet(navCalls[i].redirect)
       IN  router' = IF LoginEnd(resp) = "returned"
                     THEN Push(OrListing(redirect), Null)
                     ELSE router
    /\ tokenValid' = IF LoginEnd(resp) = "returned" THEN TRUE ELSE tokenValid
    /\ navCalls' = RemoveAt(navCalls, i)
    /\ UNCHANGED notNav

\* Log out in the navigation bar of a page, confirmed: handleLogout calls
\* logout.
HandleLogout ==
    /\ router.pathname \notin {LoginPath, <<"signup">>} /\ router.arrived
    /\ Len(navCalls) < MaxCalls
    /\ navCalls' = Append(navCalls, [op |-> "logout"])
    /\ UNCHANGED <<router, tokenValid, localStorage>>
    /\ UNCHANGED notNav

\* logout settles, however the service answered: the tokens are cleared
\* and handleLogout pushes "/".
HandleLogoutSettle(i, resp) ==
    /\ navCalls[i].op = "logout"
    /\ localStorage' = LogoutStore(localStorage, resp)
    /\ router' = Push(LoginPath, Null)
    /\ navCalls' = RemoveAt(navCalls, i)
    /\ UNCHANGED tokenValid
    /\ UNCHANGED notNav

\* What GET /auth/me answers to the request of a page: the user when the
\* service accepts the stored token, a rejection otherwise, or nothing.
CurrentUserResponses ==
    {NetErr}
    \cup (IF isAuthenticated /\ tokenValid
          THEN {Response(TRUE, 200, JsonObject([email |-> Str("email", 1)]))}
          ELSE {AuthRejected})

\* getUserEmail of SellPage settles: without a user it pushes "/".
GetUserEmailSettle(i, resp) ==
    /\ navCalls[i].op = "getUserEmail"
    /\ LET user == getCurrentUser(resp)
           email == IF user.outcome = "return" THEN EmailOf(user.value)
                    ELSE Undefined
       IN  router' = IF Truthy(email) THEN router ELSE Push(LoginPath, Null)
    /\ navCalls' = RemoveAt(navCalls, i)
    /\ UNCHANGED <<tokenValid, localStorage>>
    /\ UNCHANGED notNav

\* The tokens are cleared while the user stays on the page: logout() or a
\* rejected refreshAccessToken() in another tab of the same origin.
TokensCleared ==
    /\ router.by # "none"
    /\ isAuthenticated
    /\ localStorage' = clearTokens(localStorage)
    /\ UNCHANGED <<router, navCalls, tokenValid>>
    /\ UNCHANGED notNav

\* The service stops accepting the stored access token: it has expired or
\* was revoked.
TokenExpires ==
    /\ isAuthenticated /\ tokenValid
    /\ tokenValid' = FALSE
    /\ UNCHANGED <<router, navCalls, localStorage>>
    /\ UNCHANGED notNav

(* ------------------------------- SellPage ------------------------------- *)

\* The characters typed into the form: digits, a sign, a letter, a blank.
Digits == {"0", "5"}

\* What is typed into the title and full-name fields, and into the price
\* field.
TypedTexts == {<<>>, <<" ">>, <<"T">>}
TypedPrices == {<<>>, <<"0">>, <<"5">>, <<"-", "5">>, <<"a">>, <<"5", "a">>}

\* NaN, as parseFloat returns it.
NaN == [t |-> "NaN"]

\* The digits a string starts with.
RECURSIVE DigitRun(_)
DigitRun(s) ==
    IF s # <<>> /\ Head(s) \in Digits THEN <<Head(s)>> \o DigitRun(Tail(s)) ELSE <<>>

\* The number a run of digits denotes.
RECURSIVE Decimal(_)
Decimal(run) ==
    IF run = <<>> THEN 0
    ELSE 10 * Decimal(SubSeq(run, 1, Len(run) - 1))
         + (IF run[Len(run)] = "5" THEN 5 ELSE 0)

\* parseFloat(s): leading blanks are skipped, then a sign and the longest
\* run of digits are read and whatever follows is ignored; NaN when no
\* digit is there.
parseFloat(s) ==
    LET t == trimStart(s)
        negative == t # <<>> /\ Head(t) = "-"
        run == DigitRun(IF negative THEN Tail(t) ELSE t)
    IN  IF run = <<>> THEN NaN
        ELSE Number(IF negative THEN 0 - Decimal(run) ELSE Decimal(run))

\* e.target.value of <input type="number">: the text typed when it is a
\* valid number, the empty string otherwise.
NumberInputValue(typed) ==
    LET negative == typed # <<>> /\ Head(typed) = "-"
        rest == IF negative THEN Tail(typed) ELSE typed
    IN  IF rest # <<>> /\ DigitRun(rest) = rest THEN typed ELSE <<>>

\* The fields of formData that handleSubmit validates.
EmptyForm == [title |-> <<>>, price |-> <<>>, seller_name |-> <<>>]

\* The payload of the create request.
Payload(formData, price, userEmail) ==
    [title |-> formData.title, seller_name |-> formData.seller_name,
     price |-> price, seller_email |-> userEmail]

\* handleSubmit up to its await: the error it throws, the warning it shows
\* for an image file, or the payload it posts.
handleSubmit_NoLoginCheck(formData, userEmail, imageFile) ==
    IF trim(formData.title) = <<>> \/ formData.price = <<>>
       \/ trim(formData.seller_name) = <<>>
    THEN Throws(Text("Title, price, and full name are required"))
    ELSE IF parseFloat(formData.price) = NaN \/ parseFloat(formData.price).n < 0
    THEN Throws(Text("Price must be a valid positive number"))
    ELSE IF imageFile THEN [outcome |-> "warn"]
    ELSE Returns(Payload(formData, parseFloat(formData.price), userEmail))

handleSubmit(formData, userEmail, imageFile) ==
    IF trim(formData.title) = <<>> \/ formData.price = <<>>
       \/ trim(formData.seller_name) = <<>>
    THEN Throws(Text("Title, price, and full name are required"))
    ELSE IF ~Truthy(userEmail)
    THEN Throws(Text("You must be logged in to create a listing"))
    ELSE IF parseFloat(formData.price) = NaN \/ parseFloat(formData.price).n < 0
    THEN Throws(Text("Price must be a valid positive number"))
    ELSE IF imageFile THEN [outcome |-> "warn"]
    ELSE Returns(Payload(formData, parseFloat(formData.price), userEmail))

\* The useState values of SellPage at its first render; typedPrice is the
\* text the price field shows, left tells that the router has pushed
\* another page.
InitialSellPage ==
    [formData |-> EmptyForm, typedPrice |-> <<>>, userEmail |-> EmptyStr,
     loading |-> FALSE, error |-> Null, success |-> FALSE, imageFile |-> FALSE,
     mounted |-> FALSE, left |-> FALSE]

\* The page is rendered once, its effect has not run, nothing was sent.
SellOff ==
    /\ sellPage = InitialSellPage
    /\ sellCalls = <<>>
    /\ sellWire = [lookup |-> Null, posted |-> Null]

\* What the sell page leaves alone.
notSell ==
    <<authVars, tokenStoreVars, errCall, cartVars, searchVars, queryCall,
      myListingsVars, navVars, checkoutVars>>

\* The effect of the first render: getUserEmail calls getCurrentUser.
SellMount ==
    /\ ~sellPage.mounted
    /\ sellPage' = [sellPage EXCEPT !.mounted = TRUE]
    /\ sellCalls' = Append(sellCalls, [op |-> "getUserEmail"])
    /\ UNCHANGED sellWire
    /\ UNCHANGED notSell

\* getCurrentUser settles: with an email setUserEmail, otherwise
\* router.push("/").
GetUserEmailEnd(i, response) ==
    /\ sellCalls[i].op = "getUserEmail"
    /\ LET user == getCurrentUser(response)
           email == IF user.outcome = "return" THEN EmailOf(user.value)
                    ELSE Undefined
       IN  /\ sellPage' = IF Truthy(email)
                          THEN [sellPage EXCEPT !.userEmail = email]
                          ELSE [sellPage EXCEPT !.left = TRUE]
           /\ sellWire' = IF Truthy(email)
                          THEN [sellWire EXCEPT !.lookup = email]
                          ELSE sellWire
    /\ sellCalls' = RemoveAt(sellCalls, i)
    /\ UNCHANGED notSell

\* handleInputChange on the title or the full-name field.
HandleInputChange(name, value) ==
    /\ sellPage.mounted /\ ~sellPage.left
    /\ sellPage.formData[name] # value
    /\ sellPage' = [sellPage EXCEPT !.formData[name] = value]
    /\ UNCHANGED <<sellCalls, sellWire>>
    /\ UNCHANGED notSell

\* handleInputChange on the price field: the element hands over its value.
HandlePriceChange(typed) ==
    /\ sellPage.mounted /\ ~sellPage.left
    /\ sellPage.typedPrice # typed
    /\ sellPage' = [sellPage EXCEPT !.typedPrice = typed,
                                    !.formData.price = NumberInputValue(typed)]
    /\ UNCHANGED <<sellCalls, sellWire>>
    /\ UNCHANGED notSell

\* handleImageChange with an image file of an allowed size.
HandleImageChange ==
    /\ sellPage.mounted /\ ~sellPage.left
    /\ ~sellPage.imageFile
    /\ sellPage' = [sellPage EXCEPT !.imageFile = TRUE]
    /\ UNCHANGED <<sellCalls, sellWire>>
    /\ UNCHANGED notSell

\* The form is submitted; the button is disabled while loading.
HandleSubmit ==
    /\ sellPage.mounted /\ ~sellPage.left
    /\ ~sellPage.loading
    /\ LET start == handleSubmit(sellPage.formData, sellPage.userEmail,
                                 sellPage.imageFile)
           begun == [sellPage EXCEPT !.error = Null, !.success = FALSE]
       IN  CASE start.outcome = "throw" ->
                  /\ sellPage' = [begun EXCEPT !.error = start.message]
                  /\ UNCHANGED <<sellCalls, sellWire>>
             [] start.outcome = "warn" ->
                  /\ sellPage' = [begun EXCEPT !.error = Text("Image file upload coming soon!")]
                  /\ UNCHANGED <<sellCalls, sellWire>>
             [] OTHER ->
                  /\ sellPage' = [begun EXCEPT !.loading = TRUE]
                  /\ sellCalls' = Append(sellCalls, [op |-> "post"])
                  /\ sellWire' = [sellWire EXCEPT
                                     !.posted = [payload |-> start.value,
                                                 typedPrice |-> sellPage.typedPrice]]
    /\ UNCHANGED notSell

\* What POST /books/ may answer.
CreateResponses ==
    {NetErr, Response(FALSE, 422, JsonObject([detail |-> Str("detail", 1)])),
     Response(TRUE, 201, JsonObject([other |-> Null]))}

\* The POST settles: on success the form is reset, otherwise the message
\* shows; loading is cleared.
HandleSubmitEnd(i, response) ==
    /\ sellCalls[i].op = "post"
    /\ sellPage' =
          IF response = NetErr
          THEN [sellPage EXCEPT !.error = Text("Failed to fetch"), !.loading = FALSE]
          ELSE IF ~response.ok
          THEN [sellPage EXCEPT !.error = handleApiError(response).message,
                                !.loading = FALSE]
          ELSE [sellPage EXCEPT !.success = TRUE, !.formData = EmptyForm,
                                !.typedPrice = <<>>, !.imageFile = FALSE,
                                !.loading = FALSE]
    /\ sellCalls' = RemoveAt(sellCalls, i)
    /\ UNCHANGED sellWire
    /\ UNCHANGED notSell

(* ------------------------------- CartPage ------------------------------- *)

\* CartPage at its first render: isCheckingOut is false, handleCheckout
\* awaits nothing, no timeout is set and the page is shown.
InitialCartPage ==
    [isCheckingOut |-> FALSE, awaiting |-> FALSE, timeout |-> FALSE,
     left |-> FALSE]

\* No checkout has been answered.
NoCheckout == [answered |-> "none", confirmed |-> FALSE]

CheckoutOff ==
    /\ checkoutPage = InitialCartPage
    /\ checkoutLog = NoCheckout

\* What the cart page leaves alone, the cart itself apart.
notCheckout ==
    <<authVars, tokenStoreVars, errCall, searchVars, queryCall, myListingsVars,
      navVars, sellVars>>

\* handleCheckout from its await on, given the answer of /auth/me and of the
\* confirm dialog: "threw" for the catch block, "noUser" for a lookup that
\* returned nothing, "cancelled", or "confirmed" when the timeout that
\* clears the cart is set.
handleCheckoutEnd_ClearsOnCancel(response, confirmed) ==
    LET user == getCurrentUser(response)
    IN  IF user.outcome = "throw" THEN "threw"
        ELSE IF user.value = JsonNull THEN "noUser"
        ELSE "confirmed"

handleCheckoutEnd(response, confirmed) ==
    LET user == getCurrentUser(response)
    IN  IF user.outcome = "throw" THEN "threw"
        ELSE IF user.value = JsonNull THEN "noUser"
        ELSE IF ~confirmed THEN "cancelled"
        ELSE "confirmed"

\* The button "Contact Sellers", disabled while isCheckingOut: with an
\* empty cart handleCheckout returns at once, otherwise it sets
\* isCheckingOut and calls getCurrentUser.
HandleCheckout ==
    /\ ~checkoutPage.left /\ ~checkoutPage.isCheckingOut
    /\ cartPhase = "ready" /\ Len(cartItems) # 0
    /\ checkoutPage' = [checkoutPage EXCEPT !.isCheckingOut = TRUE,
                                            !.awaiting = TRUE]
    /\ UNCHANGED <<checkoutLog, cartVars>>
    /\ UNCHANGED notCheckout

\* getCurrentUser settles.  The catch block clears isCheckingOut; without
\* a user the router pushes "/" and isCheckingOut is left as it is; with a
\* user the confirm dialog opens, and is cancelled or confirmed.
HandleCheckoutEnd(response, confirmed) ==
    /\ checkoutPage.awaiting
    /\ LET end == handleCheckoutEnd(response, confirmed)
       IN  checkoutPage' =
              CASE end = "threw" ->
                     [checkoutPage EXCEPT !.awaiting = FALSE, !.isCheckingOut = FALSE]
                [] end = "noUser" ->
                     [checkoutPage EXCEPT !.awaiting = FALSE, !.left = TRUE]
                [] end = "cancelled" ->
                     [checkoutPage EXCEPT !.awaiting = FALSE, !.isCheckingOut = FALSE]
                [] OTHER ->
                     [checkoutPage EXCEPT !.awaiting = FALSE, !.timeout = TRUE]
    /\ checkoutLog' =
          LET user == getCurrentUser(response)
          IN  [answered |-> IF user.outcome = "throw" THEN "threw"
                            ELSE IF user.value.t = "object" THEN "user"
                            ELSE "noUser",
               confirmed |-> user.outcome = "return" /\ user.value.t = "object"
                             /\ confirmed]
    /\ UNCHANGED cartVars
    /\ UNCHANGED notCheckout

\* The timeout set after the confirmation: clearCart(), isCheckingOut is
\* cleared and the router pushes "/listing".
CheckoutTimeout ==
    /\ checkoutPage.timeout
    /\ CartRenderStep(<<>>, FALSE,
                      [op |-> "checkout", id |-> 0, had |-> cartItems # <<>>])
    /\ checkoutPage' = [checkoutPage EXCEPT !.timeout = FALSE,
                                            !.isCheckingOut = FALSE,
                                            !.left = TRUE]
    /\ UNCHANGED checkoutLog
    /\ UNCHANGED notCheckout

\* The cart page is opened again once nothing of the page left is awaited:
\* a new CartPage renders with its initial state.
CartPageOpen ==
    /\ checkoutPage.left /\ ~checkoutPage.awaiting /\ ~checkoutPage.timeout
    /\ checkoutPage' = InitialCartPage
    /\ UNCHANGED <<checkoutLog, cartVars>>
    /\ UNCHANGED notCheckout

(* ------------------------ the identity machine -------------------------- *)

\* A fresh browsing context: no tokens stored, no call made.
AuthInit ==
    /\ localStorage = [k \in {TOKEN_KEY, REFRESH_TOKEN_KEY} |-> Null]
    /\ loginCall = Idle
    /\ logoutCall = Idle
    /\ refreshCall = Idle
    /\ meCall = Idle
    /\ wire = [req |-> NoRequest, flip |-> FALSE]
    /\ logoutHistory = [returned |-> FALSE, overtook |-> {}]
    /\ tsWritten = [op |-> "none"]
    /\ tsRead = [access |-> Unread, refresh |-> Unread]

AuthNext ==
    \/ LoginCall
    \/ LoginSettle
    \/ LogoutCall
    \/ LogoutSettle
    \/ GetCurrentUserCall
    \/ GetCurrentUserSettle
    \/ RefreshCall
    \/ RefreshSettle
    \/ RefreshRaise
    \/ ApiHelperCall

AuthSpecInit == AuthInit /\ ErrOff /\ CartOff /\ SearchRendered /\ QueryOff
    /\ MyListingsRendered
    /\ NavOff
    /\ SellOff
    /\ CheckoutOff

SpecAuth == AuthSpecInit /\ [][AuthNext]_vars

\* login, logout and refreshAccessToken called in any order, each answered
\* by whatever the service may send.
TokenPairNext ==
    \/ LoginCallNoted
    \/ \E resp \in TokenResponses : LoginSettleOn(resp)
    \/ LogoutCall
    \/ LogoutSettleNoted
    \/ RefreshCallNoted
    \/ \E resp \in TokenResponses : RefreshSettleOn(resp)
    \/ RefreshRaise

TokenPairSpecInit ==
    AuthInit /\ ErrOff /\ CartOff /\ SearchRendered /\ QueryOff
    /\ MyListingsRendered
    /\ NavOff
    /\ SellOff
    /\ CheckoutOff

SpecTokenPair == TokenPairSpecInit /\ [][TokenPairNext]_vars

TokenStoreNext ==
    \/ \E a \in AccessTokens, r \in RefreshTokens : SetTokensOp(a, r)
    \/ ClearTokensOp
    \/ GetAccessTokenOp
    \/ GetRefreshTokenOp

TokenStoreSpecInit == AuthInit /\ ErrOff /\ CartOff /\ SearchRendered /\ QueryOff
    /\ MyListingsRendered
    /\ NavOff
    /\ SellOff
    /\ CheckoutOff

SpecTokenStore == TokenStoreSpecInit /\ [][TokenStoreNext]_vars

ApiErrorNext ==
    \/ HandleApiErrorCall
    \/ HandleApiErrorSettle

ApiErrorSpecInit == AuthInit /\ ErrOff /\ CartOff /\ SearchRendered /\ QueryOff
    /\ MyListingsRendered
    /\ NavOff
    /\ SellOff
    /\ CheckoutOff

SpecApiError == ApiErrorSpecInit /\ [][ApiErrorNext]_vars

CartNext ==
    \/ MountEffects
    \/ LoadRender
    \/ SaveEffect
    \/ \E item \in CartItems : AddToCart(item)
    \/ \E id \in 1..MaxListing : RemoveFromCart(id)
    \/ ClearCart
    \/ Reload

CartSpecInit == AuthInit /\ ErrOff /\ CartInit /\ SearchRendered /\ QueryOff
    /\ MyListingsRendered
    /\ NavOff
    /\ SellOff
    /\ CheckoutOff

SpecCart == CartSpecInit /\ [][CartNext]_vars

\* The cart provider, loaded from any stored string.
CartLoadNext ==
    \/ CartNext
    \/ \E item \in CartItems : AddToCartThrows(item)
    \/ \E id \in 1..MaxListing : RemoveFromCartThrows(id)
    \/ ClearCartNotArray

CartLoadSpecInit == AuthInit /\ ErrOff /\ CartLoadInit /\ SearchRendered /\ QueryOff
    /\ MyListingsRendered
    /\ NavOff
    /\ SellOff
    /\ CheckoutOff

SpecCartLoad == CartLoadSpecInit /\ [][CartLoadNext]_vars

(* ------------------------- the search page machine ---------------------- *)

SearchNext ==
    \/ Mount
    \/ \E value \in Terms : SetTerm(value)
    \/ \E value \in PickedSearchBys : SetSearchBy(value)
    \/ \E value \in PickedConditions : SetCondition(value)
    \/ \E value \in PickedMaterialTypes : SetMaterialType(value)
    \/ \E value \in PickedSorts : SetSort(value)
    \/ \E value \in PickedPageSizes : SetPageSize(value)
    \/ PreviousPage
    \/ NextPage
    \/ OnEnter
    \/ OnAdvancedClick
    \/ \E i \in 1..Len(debounceTimer.pending) : DebounceFires(i)
    \/ \E i \in 1..Len(inFlight) :
           \E response \in CatalogResponses : RunQuerySettle(i, response)

SearchSpecInit == AuthInit /\ ErrOff /\ CartOff /\ SearchRendered /\ QueryOff
    /\ MyListingsRendered
    /\ NavOff
    /\ SellOff
    /\ CheckoutOff

SpecSearch == SearchSpecInit /\ [][SearchNext]_vars

(* ------------------------------ runQuery alone -------------------------- *)

QueryNext == RunQueryReturn

QuerySpecInit == AuthInit /\ ErrOff /\ CartOff /\ SearchRendered /\ QueryInit
    /\ MyListingsRendered
    /\ NavOff
    /\ SellOff
    /\ CheckoutOff

SpecQuery == QuerySpecInit /\ [][QueryNext]_vars

(* ---------------------------- the My Listings page ---------------------- *)

MyListingsNext ==
    \/ MyListingsMount
    \/ \E i \in 1..Len(myCalls) :
           \E response \in MeResponses : FetchCurrentUserSettle(i, response)
    \/ \E i \in 1..Len(myCalls) :
           \E response \in BooksResponses : FetchListingsSettle(i, response)
    \/ Retry
    \/ \E i \in 1..MaxBook, confirmed \in BOOLEAN : HandleDelete(i, confirmed)
    \/ \E i \in 1..Len(myCalls) :
           \E response \in DeleteResponses : HandleDeleteSettle(i, response)

MyListingsSpecInit ==
    AuthInit /\ ErrOff /\ CartOff /\ SearchRendered /\ QueryOff
    /\ MyListingsRendered
    /\ NavOff
    /\ SellOff
    /\ CheckoutOff

SpecMyListings == MyListingsSpecInit /\ [][MyListingsNext]_vars

(* ----------------------- RouteGuard and the pages ----------------------- *)

NavNext ==
    \/ \E pathname \in Pathnames : Open(pathname)
    \/ PageEffects
    \/ HandleLogin
    \/ \E i \in 1..Len(navCalls) :
           \E resp \in AuthOkResponses \cup {AuthRejected, NetErr} :
              HandleLoginSettle(i, resp)
    \/ HandleLogout
    \/ \E i \in 1..Len(navCalls) :
           \E resp \in {PlainOk, AuthRejected, NetErr} : HandleLogoutSettle(i, resp)
    \/ \E i \in 1..Len(navCalls) :
           \E resp \in CurrentUserResponses : GetUserEmailSettle(i, resp)
    \/ TokensCleared
    \/ TokenExpires

\* What the program does by itself: effects run and requests are answered.
\* What the user does, and what happens to the tokens elsewhere, may or may
\* not happen.
NavProgress ==
    \/ PageEffects
    \/ \E i \in 1..Len(navCalls) :
           \E resp \in AuthOkResponses \cup {AuthRejected, NetErr} :
              HandleLoginSettle(i, resp)
    \/ \E i \in 1..Len(navCalls) :
           \E resp \in {PlainOk, AuthRejected, NetErr} : HandleLogoutSettle(i, resp)
    \/ \E i \in 1..Len(navCalls) :
           \E resp \in CurrentUserResponses : GetUserEmailSettle(i, resp)

NavSpecInit ==
    AuthInit /\ ErrOff /\ CartOff /\ SearchRendered /\ QueryOff
    /\ MyListingsRendered
    /\ NavOff
    /\ SellOff
    /\ CheckoutOff

SpecNav == NavSpecInit /\ [][NavNext]_vars

SpecNavFair == SpecNav /\ WF_vars(NavProgress)

(* -------------------------------- SellPage ------------------------------ *)

SellNext ==
    \/ SellMount
    \/ \E i \in 1..Len(sellCalls) :
           \E response \in MeResponses : GetUserEmailEnd(i, response)
    \/ \E name \in {"title", "seller_name"}, value \in TypedTexts :
           HandleInputChange(name, value)
    \/ \E typed \in TypedPrices : HandlePriceChange(typed)
    \/ HandleImageChange
    \/ HandleSubmit
    \/ \E i \in 1..Len(sellCalls) :
           \E response \in CreateResponses : HandleSubmitEnd(i, response)

SellSpecInit ==
    AuthInit /\ ErrOff /\ CartOff /\ SearchRendered /\ QueryOff
    /\ MyListingsRendered
    /\ NavOff
    /\ SellOff
    /\ CheckoutOff

SpecSell == SellSpecInit /\ [][SellNext]_vars

(* -------------------------------- CartPage ------------------------------ *)

CheckoutNext ==
    \/ MountEffects
    \/ LoadRender
    \/ SaveEffect
    \/ \E item \in CartItems : AddToCart(item)
    \/ \E id \in 1..MaxListing : RemoveFromCart(id)
    \/ ClearCart
    \/ HandleCheckout
    \/ \E response \in MeResponses, confirmed \in BOOLEAN :
           HandleCheckoutEnd(response, confirmed)
    \/ CheckoutTimeout
    \/ CartPageOpen

CheckoutSpecInit ==
    AuthInit /\ ErrOff /\ CartInit /\ SearchRendered /\ QueryOff
    /\ MyListingsRendered
    /\ NavOff
    /\ SellOff
    /\ CheckoutOff

SpecCheckout == CheckoutSpecInit /\ [][CheckoutNext]_vars

(* ------------------------------ claims ---------------------------------- *)

\* Every runQuery call issued so far has run to its end.
AllQueriesSettled == Mounted /\ inFlight = <<>>

\* C1: on the listing search page, once the responses to all issued catalog
\* queries have arrived, in whatever order, the items and the total shown
\* are the ones the query issued last computed; the response to an earlier
\* query never overwrites them.
C1_AsClaimed ==
    AllQueriesSettled =>
        /\ searchState.items = lastIssued.items
        /\ searchState.total = lastIssued.total


\* The Authorization header the claims expect for a stored access token t.
HeaderFor(t) == IF t = Null THEN NoHeader ELSE Bearer(t)

LogoutEnds == logoutCall.pc = "fetching" /\ logoutCall'.pc # "fetching"

\* C2: when logout() ends, whatever the outcome of POST /auth/logout (2xx,
\* non-2xx, transport error), it ends by returning, never by throwing, and
\* both the access token and the refresh token are absent from the store.
C2_LogoutClearsTokens ==
    [][LogoutEnds =>
         /\ logoutCall'.pc = "returned"
         /\ localStorage'[TOKEN_KEY] = Null
         /\ localStorage'[REFRESH_TOKEN_KEY] = Null]_vars

\* C2 witness: logout was called with a token stored (its request carried
\* the header), the request failed in transport, and the store is empty.
C2_Witness ==
    /\ logoutCall = Ended("returned", NetErr)
    /\ wire.req.endpoint = "/auth/logout"
    /\ wire.req.auth # NoHeader
    /\ localStorage[TOKEN_KEY] = Null
    /\ localStorage[REFRESH_TOKEN_KEY] = Null

RefreshSettles == refreshCall.pc = "fetching" /\ refreshCall'.pc # "fetching"

RefreshFails ==
    refreshCall.pc \in {"fetching", "erroring"} /\ refreshCall'.pc = "thrown"

\* C3 as claimed: whenever refreshAccessToken() fails, by rejection or by a
\* transport failure, both stored tokens are absent afterwards; when it
\* succeeds the store holds exactly the new pair.
C3_AsClaimed ==
    [][/\ RefreshFails =>
            /\ localStorage'[TOKEN_KEY] = Null
            /\ localStorage'[REFRESH_TOKEN_KEY] = Null
       /\ (RefreshSettles /\ refreshCall'.pc = "returned") =>
            /\ localStorage'[TOKEN_KEY] = Field(refreshCall'.resp.body, "access_token")
            /\ localStorage'[REFRESH_TOKEN_KEY] =
                   Field(refreshCall'.resp.body, "refresh_token")]_vars

\* C3 amended: when the refresh request is answered with a rejection, both
\* stored tokens are removed on its arrival, before the error is raised;
\* when the request fails in transport the call throws and leaves the
\* store as it was; when it succeeds the store holds exactly the new pair
\* of the response.
C3_RefreshStore ==
    [][RefreshSettles =>
         LET resp == refreshCall'.resp
         IN  /\ resp = NetErr =>
                  refreshCall'.pc = "thrown" /\ localStorage' = localStorage
             /\ (resp # NetErr /\ ~resp.ok) =>
                  /\ refreshCall'.pc = "erroring"
                  /\ localStorage'[TOKEN_KEY] = Null
                  /\ localStorage'[REFRESH_TOKEN_KEY] = Null
             /\ (resp # NetErr /\ resp.ok) =>
                  /\ refreshCall'.pc = "returned"
                  /\ localStorage'[TOKEN_KEY] = Field(resp.body, "access_token")
                  /\ localStorage'[REFRESH_TOKEN_KEY] =
                         Field(resp.body, "refresh_token")]_vars

\* C3 witness: the service rejected the refresh token of a logged-in user
\* (login returned and no logout was made) and the store is empty.
C3_Witness ==
    /\ refreshCall.pc = "erroring"
    /\ refreshCall.resp = AuthRejected
    /\ loginCall.pc = "returned"
    /\ logoutCall.pc = "idle"
    /\ localStorage[TOKEN_KEY] = Null
    /\ localStorage[REFRESH_TOKEN_KEY] = Null

\* C4: every request authenticatedFetch produces (directly or through
\* apiGet, apiPost, apiPut, apiDelete) carries Authorization: Bearer t
\* exactly when the store holds an access token at that moment, and t is
\* the token stored at that moment.
C4_BearerIffStored ==
    [][wire' # wire =>
         /\ wire'.req.auth = HeaderFor(localStorage[TOKEN_KEY])
         /\ localStorage' = localStorage]_vars

\* C4 witness: a catalog request without the header, made after a login
\* had stored a token and a logout had cleared it again.
C4_Witness ==
    /\ wire.req.endpoint = "/books/"
    /\ wire.req.method = "DELETE"
    /\ wire.req.auth = NoHeader
    /\ loginCall.pc = "returned"
    /\ logoutCall.pc = "returned"
    /\ localStorage[TOKEN_KEY] = Null

LoginEnds == loginCall.pc = "fetching" /\ loginCall'.pc # "fetching"

\* C5: login() changes the token store only when the service accepts the
\* credentials: then the store holds exactly the pair of that response; on
\* a rejection (or a transport failure) login throws and the store is as it
\* was; starting the call changes nothing.
C5_LoginStore ==
    [][/\ LoginEnds =>
            LET resp == loginCall'.resp
            IN  IF resp # NetErr /\ resp.ok
                THEN /\ loginCall'.pc = "returned"
                     /\ localStorage'[TOKEN_KEY] = Field(resp.body, "access_token")
                     /\ localStorage'[REFRESH_TOKEN_KEY] =
                            Field(resp.body, "refresh_token")
                ELSE /\ loginCall'.pc = "thrown"
                     /\ localStorage' = localStorage
       /\ (loginCall' # loginCall /\ ~LoginEnds) => localStorage' = localStorage]_vars

\* C5 witness: login stored its pair over a different pair that a refresh
\* had stored before.
C5_Witness ==
    /\ loginCall.pc = "returned"
    /\ refreshCall.pc = "returned"
    /\ localStorage[TOKEN_KEY] = Field(loginCall.resp.body, "access_token")
    /\ localStorage[REFRESH_TOKEN_KEY] = Field(loginCall.resp.body, "refresh_token")
    /\ Field(refreshCall.resp.body, "access_token") # localStorage[TOKEN_KEY]
    /\ Field(refreshCall.resp.body, "refresh_token") # localStorage[REFRESH_TOKEN_KEY]

\* C6: a getter's result that no setTokens or clearTokens has followed is
\* absent when the last store operation was clearTokens(), and is a (for
\* getAccessToken) or r (for getRefreshToken) when it was setTokens(a, r).
C6_GetAfterSetOrClear ==
    /\ (tsRead.access # Unread /\ tsRead.access.fresh) =>
          /\ tsWritten.op = "clear" => tsRead.access.v = Null
          /\ tsWritten.op = "set" => tsRead.access.v = tsWritten.access
    /\ (tsRead.refresh # Unread /\ tsRead.refresh.fresh) =>
          /\ tsWritten.op = "clear" => tsRead.refresh.v = Null
          /\ tsWritten.op = "set" => tsRead.refresh.v = tsWritten.refresh

\* C6 witness: after setTokens(a, r) both getters were called.
C6_Witness ==
    /\ tsWritten.op = "set"
    /\ tsRead.access = Read(tsWritten.access)
    /\ tsRead.refresh = Read(tsWritten.refresh)
    /\ tsWritten.access = Str("access", 2)

\* C6 witness after clearTokens(): getAccessToken() returned absent.
C6_WitnessClear ==
    /\ tsWritten.op = "clear"
    /\ tsRead.access = Read(Null)

\* A field of a structured error body is present when the body has it with
\* a text in it.
Present(v) == v \notin {Undefined, Null, EmptyStr}

\* The message C7 expects for a response.
ExpectedMessage(response) ==
    LET body == response.body
        structured == body.t = "object"
        detail == IF structured THEN Field(body, "detail") ELSE Undefined
        message == IF structured THEN Field(body, "message") ELSE Undefined
    IN  IF Present(detail) THEN detail
        ELSE IF Present(message) THEN message
        ELSE GenericMessage(response.status)

\* C7: handleApiError never returns normally: for every response it throws
\* an error whose message is the body's detail when present, otherwise its
\* message field, otherwise "Request failed with status <status>", which is
\* also the message when the body cannot be parsed.
C7_AlwaysThrows ==
    errCall.pc = "settled" =>
        /\ errCall.result.outcome = "throw"
        /\ errCall.result.message = ExpectedMessage(errCall.response)

\* C7 witness: a body with both fields, and the error carries the detail.
C7_Witness ==
    /\ errCall.pc = "settled"
    /\ errCall.response.body =
          JsonObject([detail |-> Str("detail", 1), message |-> Str("message", 1)])
    /\ errCall.result = Throws(Str("detail", 1))

\* A step of one of the three cart mutations.
CartMutation ==
    \/ \E item \in CartItems : AddToCart(item)
    \/ \E id \in 1..MaxListing : RemoveFromCart(id)
    \/ ClearCart

\* C8: after every step no two cart entries have the same listing id, and
\* addToCart with an id already in the cart leaves the cart as it was.
C8_NoDuplicates ==
    [][/\ NoDuplicates(cartItems')
       /\ \A item \in CartItems :
            (AddToCart(item) /\ InCart(cartItems, item.id)) =>
                cartItems' = cartItems]_vars

\* C8 witness: addToCart was called with an id the full cart already held.
C8_Witness ==
    /\ cartEvent.op = "add"
    /\ cartEvent.had
    /\ Len(cartItems) = MaxListing
    /\ NoDuplicates(cartItems)

Mounting == cartPhase \in {"rendered", "loading"}

\* C10: while the provider mounts with a valid entry list L persisted, the
\* persisted value stays L, and mounting ends with the in-memory cart
\* equal to L.
C10_AsClaimed ==
    [][(Mounting /\ cartStorage \in {JsonText(l) : l \in ValidEntryLists}) =>
         /\ cartStorage' = cartStorage
         /\ cartPhase' = "ready" => JsonText(cartItems') = cartStorage]_vars

\* The stored string is not a serialized entry list.
Corrupt(stored) == stored = CorruptText \/ stored \in {JsonText(value) : value \in NotArrays}

\* add, remove, count and total work on the in-memory cart.
CartWorks(items) ==
    /\ IsArray(items)
    /\ getCartCount(items).outcome = "return"
    /\ getCartTotal(items).outcome = "return"

\* C11: when the persisted cart value is corrupt (any stored string that is
\* not a serialized entry list), loading the cart leaves the in-memory cart
\* empty with no update queued and the corrupt value gone from storage, and
\* add, remove, total and count work on the cart from then on.
C11_AsClaimed ==
    [][/\ (MountEffects /\ Corrupt(cartStorage)) =>
              (cartQueued' = Null /\ cartItems' = <<>> /\ ~Corrupt(cartStorage'))
       /\ CartWorks(cartItems')]_vars

\* What the load effect does handle: a stored string that is not JSON is
\* removed, and the cart starts empty and works.
C11_NotJsonDiscarded ==
    [][(MountEffects /\ cartStorage = CorruptText) =>
          /\ cartQueued' = Null /\ cartItems' = <<>> /\ cartPhase' = "ready"
          /\ cartStorage' = JsonText(<<>>)
          /\ CartWorks(cartItems')]_vars

\* The runQuery call has ended on a response that carried a listing array.
SettledOnData ==
    /\ queryCall.pc = "settled"
    /\ queryCall.response # NetErr
    /\ queryCall.response.ok
    /\ queryCall.response.body.t = "array"

QueryData == queryCall.response.body.items

\* The listing passes the material kind filter and the keyword filter of q.
Passes(item, q) ==
    /\ mtLabelToValue(q.materialType) \in {Undefined, item.material_type}
    /\ \/ trim(q.activeTerm) = <<>>
       \/ KeywordMatch(item, q.searchBy, q.condition, toLowerCase(trim(q.activeTerm)))

NumberPassing(data, q) == Cardinality({i \in 1..Len(data) : Passes(data[i], q)})

\* C12: for every listing set, filter, sort, page and page size, the total a
\* catalog query reports is the number of listings that pass its filters,
\* whatever the page and the page size, and the items and the total the page
\* shows afterwards are the ones this one query computed.
C12_TotalBeforeSlicing ==
    SettledOnData =>
        /\ queryCall.result.total = NumberPassing(QueryData, queryCall.q)
        /\ queryCall.shown.total = queryCall.result.total
        /\ queryCall.shown.items = queryCall.result.items

\* A query whose filters drop some listings and whose page holds fewer
\* listings than pass.
C12_Witness ==
    /\ SettledOnData
    /\ Len(queryCall.result.items) > 0
    /\ queryCall.result.total > Len(queryCall.result.items)
    /\ queryCall.result.total < Len(QueryData)
    /\ queryCall.q.page > 1

\* On the page, items and total change only together, to what one of the
\* queries in flight computed from its response.
C12_ShownTogether ==
    [][(searchState'.items # searchState.items \/ searchState'.total # searchState.total)
        => \E i \in 1..Len(inFlight) : \E response \in CatalogResponses :
              LET result == runQueryResult(inFlight[i], response)
              IN  /\ searchState'.items = result.items
                  /\ searchState'.total = result.total
                  /\ inFlight' = RemoveAt(inFlight, i)]_vars

\* The filtered and sorted list of the settled query, and the position in
\* it before the first one of its page.
QueryFiltered == FilterListings(queryCall.q, QueryData)

PageStart == (queryCall.q.page - 1) * queryCall.q.pageSize

\* How many listings of the filtered list fall on the page.
OnPage ==
    IF PageStart >= Len(QueryFiltered) THEN 0
    ELSE IF Len(QueryFiltered) - PageStart < queryCall.q.pageSize
         THEN Len(QueryFiltered) - PageStart
         ELSE queryCall.q.pageSize

\* C13: for every filtered and sorted list F, page p and page size s, the
\* query returns exactly the elements of F at positions (p-1)*s up to but
\* excluding p*s, in order; when (p-1)*s >= |F| it returns the empty list and
\* sets no error.
C13_PageSlice ==
    SettledOnData =>
        /\ Len(queryCall.result.items) = OnPage
        /\ \A i \in 1..OnPage : queryCall.result.items[i] = QueryFiltered[PageStart + i]
        /\ ~queryCall.result.failed
        /\ queryCall.shown.err = Null
        /\ PageStart >= Len(QueryFiltered) => queryCall.shown.items = <<>>

\* A later page that the filtered list fills only in part.
C13_Witness ==
    /\ SettledOnData
    /\ queryCall.q.page > 1
    /\ Len(queryCall.result.items) > 1
    /\ Len(queryCall.result.items) < queryCall.q.pageSize
    /\ Len(QueryFiltered) < Len(QueryData)

\* A page past the end of a filtered list that is not empty.
C13_WitnessPastEnd ==
    /\ SettledOnData
    /\ Len(QueryFiltered) > 0
    /\ PageStart >= Len(QueryFiltered)
    /\ queryCall.shown.items = <<>>
    /\ queryCall.shown.total = Len(QueryFiltered)

\* Two characters that are the same letter, whatever their case.
SameLetter(a, b) == a = b \/ {a, b} = {"A", "a"} \/ {a, b} = {"B", "b"}

\* The property is present and t occurs in it, case ignored.
ContainsIgnoringCase(field, t) ==
    /\ field \notin {Null, Undefined}
    /\ \E at \in 0..(Len(field.s) - Len(t)) :
           \A k \in 1..Len(t) : SameLetter(field.s[at + k], t[k])

AnyFieldContains(item, t) ==
    \/ ContainsIgnoringCase(item.title, t)
    \/ ContainsIgnoringCase(item.author, t)
    \/ ContainsIgnoringCase(item.isbn, t)
    \/ ContainsIgnoringCase(item.genre, t)

AllFourMissing(item) ==
    /\ item.title \in {Null, Undefined} /\ item.author \in {Null, Undefined}
    /\ item.isbn \in {Null, Undefined} /\ item.genre \in {Null, Undefined}

\* The listing is of the material kind the query asks for, if it asks.
MaterialPasses(item, q) ==
    mtLabelToValue(q.materialType) \in {Undefined, item.material_type}

\* The typed term of the settled query, trimmed.
TrimmedTerm == trim(queryCall.q.activeTerm)

\* C14: for every listing set and non-empty trimmed term t, the keyword
\* filter with scope Any keeps exactly the listings of which at least one of
\* title, author, isbn, genre contains t, case ignored; a listing whose four
\* properties are all missing is never kept.
C14_ScopeAny ==
    (SettledOnData /\ queryCall.q.searchBy = "Any" /\ TrimmedTerm # <<>>) =>
        /\ queryCall.result.total =
               Cardinality({i \in 1..Len(QueryData) :
                               /\ MaterialPasses(QueryData[i], queryCall.q)
                               /\ AnyFieldContains(QueryData[i], TrimmedTerm)})
        /\ \A i \in 1..Len(queryCall.result.items) :
               /\ AnyFieldContains(queryCall.result.items[i], TrimmedTerm)
               /\ ~AllFourMissing(queryCall.result.items[i])

\* A listing kept for its isbn alone, which holds the term in another case.
C14_Witness ==
    /\ SettledOnData /\ queryCall.q.searchBy = "Any"
    /\ queryCall.q.activeTerm = <<"a">>
    /\ Len(QueryData) = 1
    /\ QueryData[1].title = Undefined /\ QueryData[1].author = Null
    /\ QueryData[1].isbn = Text(<<"A", "b">>) /\ QueryData[1].genre = Undefined
    /\ Len(queryCall.result.items) = 1

\* A listing with none of the four properties, dropped.
C14_WitnessAllMissing ==
    /\ SettledOnData /\ queryCall.q.searchBy = "Any" /\ TrimmedTerm # <<>>
    /\ Len(QueryData) = 1 /\ AllFourMissing(QueryData[1])
    /\ queryCall.result.total = 0

\* The property is present and is t, case ignored.
EqualsIgnoringCase(field, t) ==
    /\ field \notin {Null, Undefined}
    /\ Len(field.s) = Len(t)
    /\ \A k \in 1..Len(t) : SameLetter(field.s[k], t[k])

\* The property of the listing a scope other than Any selects.
SelectedField(item, searchBy) ==
    CASE searchBy = "Title" -> item.title
      [] searchBy = "Author" -> item.author
      [] searchBy = "Genre" -> item.genre
      [] searchBy = "ISBN" -> item.isbn

\* The settled query matches one property for the exact phrase.
ExactPhraseQuery ==
    /\ SettledOnData
    /\ queryCall.q.searchBy \in {"Title", "Author", "Genre", "ISBN"}
    /\ queryCall.q.condition = "Contains exact phrase"
    /\ TrimmedTerm # <<>>

\* C15: for every listing set and non-empty trimmed term t, the keyword
\* filter with scope Title, Author, Genre or ISBN and condition "Contains
\* exact phrase" keeps exactly the listings whose selected property,
\* lowercased, equals t lowercased; a listing whose property only contains t
\* as a proper substring is not kept.
C15_ExactPhrase ==
    ExactPhraseQuery =>
        /\ queryCall.result.total =
               Cardinality({i \in 1..Len(QueryData) :
                   /\ MaterialPasses(QueryData[i], queryCall.q)
                   /\ EqualsIgnoringCase(
                          SelectedField(QueryData[i], queryCall.q.searchBy), TrimmedTerm)})
        /\ \A i \in 1..Len(queryCall.result.items) :
               EqualsIgnoringCase(
                   SelectedField(queryCall.result.items[i], queryCall.q.searchBy),
                   TrimmedTerm)

\* A listing kept because its author is the term in another case, typed
\* with a leading blank.
C15_Witness ==
    /\ ExactPhraseQuery
    /\ queryCall.q.searchBy = "Author"
    /\ queryCall.q.activeTerm = <<" ", "B">>
    /\ Len(QueryData) = 1
    /\ QueryData[1].author = Text(<<"b">>)
    /\ queryCall.result.total = 1

\* A listing dropped although its title contains the term.
C15_WitnessSubstring ==
    /\ ExactPhraseQuery
    /\ queryCall.q.searchBy = "Title"
    /\ queryCall.q.activeTerm = <<"a">>
    /\ Len(QueryData) = 1
    /\ QueryData[1].title = Text(<<"A", "b">>)
    /\ queryCall.result.total = 0

\* What a query with the filters, page and page size the page has now
\* computes from the catalog.
ResultForState ==
    runQueryResult(Query(searchState.debounced, searchState), OkArray(Catalog))

\* The last state update changed a filter (scope, condition, debounced
\* keyword, material kind or sort key) while the page was p > 1.
FilterChangedOnLaterPage == lastChange.filters /\ lastChange.pageBefore > 1

\* C16: after a change of search scope, match condition, debounced keyword,
\* material kind or sort key made on a page p > 1 the current page is 1 and,
\* once the queries have settled with the last one issued answered by the
\* catalog, the results shown are page 1 of the new filter; a change of the
\* page size alone leaves the page number as it was.
C16_AsClaimed ==
    /\ FilterChangedOnLaterPage =>
          /\ searchState.page = 1
          /\ (/\ AllQueriesSettled
              /\ lastIssued.items = ResultForState.items
              /\ lastIssued.total = ResultForState.total)
             => /\ searchState.items = ResultForState.items
                /\ searchState.total = ResultForState.total
    /\ (lastChange.pageSize /\ ~lastChange.filters) =>
          searchState.page = lastChange.pageBefore

\* The part of C16 about the page number alone.
C16_PageNumber ==
    /\ FilterChangedOnLaterPage => searchState.page = 1
    /\ (lastChange.pageSize /\ ~lastChange.filters) =>
          searchState.page = lastChange.pageBefore

\* On page 2 the sort key was changed; of the two queries the change
\* issued, the one for page 1 was answered first; page 2 is what is shown.
C16_StalePageShown ==
    /\ FilterChangedOnLaterPage /\ AllQueriesSettled /\ userEvents = 2
    /\ searchState.sort = "price-desc" /\ searchState.page = 1
    /\ searchState.total = CatalogSize /\ Len(searchState.items) = 1
    /\ Len(lastIssued.items) = 12

\* The queries a step issues.
Issued(before, after) == SubSeq(after, Len(before) + 1, Len(after))

\* A step in which no response arrives.
NoneSettles == Len(inFlight') >= Len(inFlight)

\* C17: in a burst of keystrokes, each within the debounce delay of the one
\* before, a keystroke issues no catalog query; at most one debounce timer is
\* pending at any time, and it holds the term as typed last; the query issued
\* when it fires carries that final term.
C17_Debounced ==
    /\ [](Mounted => /\ Len(debounceTimer.pending) <= 1
                     /\ \A i \in 1..Len(debounceTimer.pending) :
                            debounceTimer.pending[i] = searchState.term)
    /\ [][/\ searchState'.term # searchState.term => inFlight' = inFlight
          /\ (NoneSettles /\ searchState'.debounced # searchState.debounced) =>
                /\ searchState'.debounced = searchState.term
                /\ Issued(inFlight, inFlight') # <<>>
                /\ \A k \in 1..Len(Issued(inFlight, inFlight')) :
                       Issued(inFlight, inFlight')[k].activeTerm = searchState.term]_vars

\* After two input events the typed term differs from the initial one, the
\* timer has fired, and the query it issued carries the term as typed last
\* while the query of the first render is still in flight.
C17_Witness ==
    /\ userEvents = 2
    /\ lastChange.filters
    /\ searchState.term = <<" ", "B">>
    /\ searchState.debounced = <<" ", "B">>
    /\ debounceTimer.pending = <<>>
    /\ Len(inFlight) = 2
    /\ inFlight[1].activeTerm = <<>>
    /\ inFlight[2].activeTerm = <<" ", "B">>

\* C18: pressing Enter in a search field, or the search button, issues a
\* catalog query in that very step, with the term as typed now, whether or
\* not a debounce timer is pending; the timer is left as it is.
C18_ExplicitSearch ==
    [][(OnEnter \/ OnAdvancedClick) =>
          /\ Len(inFlight') > Len(inFlight)
          /\ inFlight'[Len(inFlight) + 1].activeTerm = searchState.term
          /\ debounceTimer' = debounceTimer]_vars

\* A query for the typed term is in flight while the timer set by the
\* keystroke is still pending and the debounced term is the old one.
C18_Witness ==
    /\ searchState.term = <<"a">>
    /\ searchState.debounced = <<>>
    /\ debounceTimer.pending = << <<"a">> >>
    /\ \E k \in 1..Len(inFlight) : inFlight[k].activeTerm = <<"a">>

\* The responses with which a catalog fetch fails.
FailedResponses == {response \in CatalogResponses : response = NetErr \/ ~response.ok}

\* The messages runQuery shows for them.
ErrorMessages == {Text("Failed to fetch"), Text("Failed to fetch listings")}

\* C19: a catalog fetch that fails leaves the page with a message to show, no
\* items, total 0 and the loading flag cleared, and issues no request; a
\* request is only ever issued by the first render, by an input event or by a
\* change of the debounced keyword: nothing is retried.
C19_FailureShown ==
    [][/\ \A i \in 1..Len(inFlight) : \A response \in FailedResponses :
             RunQuerySettle(i, response) =>
                 /\ searchState'.err \in ErrorMessages
                 /\ searchState'.items = <<>>
                 /\ searchState'.total = 0
                 /\ ~searchState'.loading
                 /\ inFlight' = RemoveAt(inFlight, i)
                 /\ debounceTimer' = debounceTimer
       /\ Len(inFlight') > Len(inFlight) =>
             \/ ~Mounted
             \/ userEvents' = userEvents + 1
             \/ searchState'.debounced # searchState.debounced]_vars

\* After results had been shown (the Next button was there to press), the
\* fetch for the next page failed: the message is up, nothing is listed and
\* no request is in flight.
C19_Witness ==
    /\ Mounted
    /\ userEvents = 1
    /\ searchState.page = 2
    /\ searchState.err = Text("Failed to fetch listings")
    /\ searchState.items = <<>>
    /\ searchState.total = 0
    /\ ~searchState.loading
    /\ inFlight = <<>>

\* The listings of the response the page received last that another seller,
\* or none, is stored with.
ForeignReceived ==
    IF myWire.received \in {Null, NetErr} THEN {}
    ELSE IF ~myWire.received.ok \/ myWire.received.body.t # "array" THEN {}
    ELSE {i \in 1..Len(myWire.received.body.items) :
             /\ myWire.received.body.items[i] # Null
             /\ myWire.received.body.items[i].seller_email # myPage.userEmail}

\* C20: every listing the My Listings page holds carries the seller_email
\* the page took from getCurrentUser, and every DELETE request handleDelete
\* has sent names a listing the service stores under that email.
C20_OwnListingsOnly ==
    /\ \A i \in 1..Len(myPage.listings) :
           myPage.listings[i].seller_email = myPage.userEmail
    /\ \A id \in myWire.deleted : Seller(id) = myPage.userEmail

\* C20 happens: the service answered with listings of other sellers among
\* the user's own, the page holds some, and a DELETE has been sent.
C20_Witness ==
    /\ myPage.userEmail \in UserEmails
    /\ ForeignReceived # {}
    /\ myPage.listings # <<>>
    /\ myWire.deleted # {}

\* fetchListings failing (C19's second source): its catch sets the message,
\* finally clears loading, and the page holds no listing at that point,
\* because a fetch only starts from the first render's empty list or from
\* the error state.
FetchListingsFailureShown ==
    [][\A i \in 1..Len(myCalls), response \in BooksResponses :
          (/\ FetchListingsSettle(i, response)
           /\ fetchListingsEnd(myCalls[i].userEmail, response).outcome = "throw")
          => /\ myPage'.error =
                    fetchListingsEnd(myCalls[i].userEmail, response).message
             /\ myPage'.error # Null
             /\ myPage'.listings = <<>>
             /\ ~myPage'.loading]_vars

\* The token store holds neither token.
StoreEmpty ==
    localStorage[TOKEN_KEY] = Null /\ localStorage[REFRESH_TOKEN_KEY] = Null

\* C25 as claimed: once logout() has returned, the token store goes from
\* empty to holding a token only when a login that was started after that
\* return succeeds.
C25_AsClaimed ==
    [][(logoutHistory.returned /\ StoreEmpty /\ ~StoreEmpty')
         => /\ LoginEnds /\ loginCall'.pc = "returned"
            /\ "login" \notin logoutHistory.overtook]_vars

\* What holds instead: after logout() has returned, only a login or a
\* refresh that ends with a 2xx token response fills the store, whenever it
\* was started.
C25_FilledBySuccessOnly ==
    [][(logoutHistory.returned /\ StoreEmpty /\ ~StoreEmpty')
         => \/ LoginEnds /\ loginCall'.pc = "returned"
            \/ RefreshSettles /\ refreshCall'.pc = "returned"]_vars

\* The call logout() overtook has stored its pair: the user is logged out
\* and the store holds tokens.
C25_TokensAfterLogout ==
    /\ logoutCall.pc = "returned"
    /\ logoutHistory.overtook # {}
    /\ ~StoreEmpty
    /\ \/ "login" \in logoutHistory.overtook /\ loginCall.pc = "returned"
       \/ "refresh" \in logoutHistory.overtook /\ refreshCall.pc = "returned"

\* C30: the access token is stored exactly when the refresh token is.
C30_PairTogether ==
    (localStorage[TOKEN_KEY] = Null) <=> (localStorage[REFRESH_TOKEN_KEY] = Null)

\* C30 happens: a 2xx response that names one token only has been stored,
\* and a pair was cleared and stored again before.
C30_Witness ==
    /\ refreshCall.pc = "returned"
    /\ refreshCall.resp \in OddOkResponses
    /\ logoutCall.pc = "returned"
    /\ localStorage[TOKEN_KEY] # Null
    /\ localStorage[REFRESH_TOKEN_KEY] = Str("undefined", 0)

\* C22 as claimed: at most one catalog request is in flight at any time.
C22_AsClaimed == Len(inFlight) <= 1

\* Two catalog requests are in flight while a debounce timer is pending:
\* nothing was aborted and the timer was not cancelled.
C22_TwoInFlight == Len(inFlight) >= 2 /\ debounceTimer.pending # <<>>

\* C26 as claimed: once every catalog query has settled, the page number is
\* at most the page count.
C26_AsClaimed ==
    (Mounted /\ inFlight = <<>>) => searchState.page <= pageCount(searchState)

\* The user is left on an out-of-range page after choosing a larger page
\* size on page 2: every query has settled without an error, the whole
\* catalog matches, the page number exceeds the page count, no listing is
\* shown and the pagination controls are hidden.
C26_StuckPastTheEnd ==
    /\ Mounted /\ inFlight = <<>>
    /\ searchState.err = Null
    /\ searchState.total = CatalogSize
    /\ searchState.pageSize > InitialSearchState.pageSize
    /\ searchState.page > pageCount(searchState)
    /\ searchState.items = <<>>
    /\ ~PaginationShown

\* C27 as claimed: the query that Enter issues is sliced with page 1.
C27_AsClaimed ==
    [][OnEnter => inFlight'[Len(inFlight) + 1].page = 1]_vars

\* What holds instead: the query that Enter issues reads the term as typed
\* and the page of the render the key was pressed in; when that page is not
\* 1, the re-query effect of the next render issues a second query, for
\* page 1 and the debounced term.
C27_EnterReadsOldPage ==
    [][OnEnter =>
         /\ inFlight'[Len(inFlight) + 1] = Query(searchState.term, searchState)
         /\ searchState'.page = 1
         /\ searchState.page # 1 =>
              /\ Len(inFlight') = Len(inFlight) + 2
              /\ inFlight'[Len(inFlight) + 2] =
                     Query(searchState.debounced, [searchState EXCEPT !.page = 1])]_vars

\* C28 as claimed: once the page is mounted, loading is true exactly while
\* a catalog query is in flight.
C28_AsClaimed ==
    Mounted => (searchState.loading <=> inFlight # <<>>)

\* What holds of the claim: with no query in flight the flag is false.
C28_IdleNotLoading ==
    (Mounted /\ inFlight = <<>>) => ~searchState.loading

\* A query is in flight and the flag is false: the skeleton is not shown.
C28_InFlightNotLoading ==
    Mounted /\ inFlight # <<>> /\ ~searchState.loading

\* The application is open on a protected route and no access token is
\* stored.
Unguarded(pathname) ==
    /\ router.by # "none"
    /\ router.pathname = pathname
    /\ isProtectedRoute(pathname)
    /\ ~isAuthenticated

\* C21 as claimed: whenever the route shown is a protected one and no
\* access token is stored, the redirect to the login page with that path as
\* redirect parameter is eventually performed (unless the user has left the
\* route or holds a token again by then).
C21_AsClaimed ==
    \A pathname \in Pathnames :
        [](Unguarded(pathname) =>
             <>(\/ router = Push(LoginPath, encodeURIComponent(pathname))
                \/ router.pathname # pathname
                \/ isAuthenticated))

\* What holds of the claim: the guard redirects, with the return URL, when
\* the effects of an arrival at a protected route run without a token, and
\* a login that succeeds pushes the path the redirect parameter names.
C21_GuardOnArrival ==
    [][/\ (PageEffects /\ isProtectedRoute(router.pathname) /\ ~isAuthenticated)
            => router' = Push(LoginPath, encodeURIComponent(router.pathname))
       /\ \A i \in 1..Len(navCalls), resp \in AuthOkResponses :
            (HandleLoginSettle(i, resp) /\ navCalls[i].redirect # Null)
            => router' = Push(navCalls[i].redirect.of, Null)]_vars

\* The user sits on a protected page whose effects have run, without a
\* token and with no call in flight: nothing is left that would redirect.
C21_LeftUnguarded ==
    /\ router.arrived
    /\ isProtectedRoute(router.pathname)
    /\ ~isAuthenticated
    /\ navCalls = <<>>

\* The stored access token is one the service rejects.
RejectedStored == isAuthenticated /\ ~tokenValid

\* C29 as claimed: while the rejected token is stored, a user on the login
\* form is taken elsewhere only by a navigation of their own.
C29_AsClaimed ==
    [][(RejectedStored /\ RejectedStored' /\ router.pathname = LoginPath)
         => (router'.pathname = LoginPath \/ router'.by = "user")]_vars

\* What the code does: the sell page pushes "/" when the lookup fails, and
\* the login page, finding a token stored, pushes "/listing".
C29_SentOnToListing ==
    [][/\ \A i \in 1..Len(navCalls) :
            (GetUserEmailSettle(i, AuthRejected) /\ RejectedStored)
            => router' = Push(LoginPath, Null)
       /\ (PageEffects /\ RejectedStored /\ router.pathname = LoginPath)
            => router' = Push(<<"listing">>, Null)]_vars

\* A price as typed that is a number and not negative: digits only.
ValidPrice(typed) ==
    typed # <<>> /\ \A i \in 1..Len(typed) : typed[i] \in Digits

\* A text that is not blank.
NotBlank(text) == \E i \in 1..Len(text) : text[i] # " "

\* C23: the POST /books/ the sell form sent last carries as seller_email
\* the email the current-user lookup returned, so that lookup had succeeded,
\* and was sent with a title and a seller name that are not blank and a
\* price typed as a number that is not negative.
C23_PostGuarded ==
    sellWire.posted # Null =>
        /\ sellWire.lookup # Null
        /\ sellWire.posted.payload.seller_email = sellWire.lookup
        /\ NotBlank(sellWire.posted.payload.title)
        /\ NotBlank(sellWire.posted.payload.seller_name)
        /\ ValidPrice(sellWire.posted.typedPrice)
        /\ sellWire.posted.payload.price \in {Number(0), Number(5)}

\* C23 happens: a request was posted with the email looked up and the
\* server accepted it, so the form is reset.
C23_Witness ==
    /\ sellWire.posted # Null
    /\ sellWire.posted.payload.seller_email = sellWire.lookup
    /\ sellPage.success
    /\ sellPage.formData = EmptyForm

C24_Cancelled ==
    /\ checkoutLog = [answered |-> "user", confirmed |-> FALSE]
    /\ ~checkoutPage.isCheckingOut /\ ~checkoutPage.left
    /\ cartItems # <<>>

====
